---------------------------- MODULE Spec2Model ----------------------------
(***************************************************************************)
(* A model of three components of byoda-python:                            *)
(*                                                                         *)
(*   - the access-control tree of byoda/datamodel/dataclass.py             *)
(*     (SchemaDataItem / SchemaDataObject / SchemaDataArray and their      *)
(*     authorize_access methods), specification SpecACL;                   *)
(*   - the token decoder of byoda/requestauth/jwt.py (JWT.decode and       *)
(*     JWT._get_issuer_secret), specification SpecJWT;                     *)
(*   - the Secret / CA abstraction of byoda/util/secrets/secret.py,        *)
(*     specification Spec.                                                 *)
(*                                                                         *)
(* The three components share no mutable state (a decode only reads the    *)
(* certificate of the Secret it is handed), so each is explored under its  *)
(* own specification; the variables of the other components stay at their  *)
(* initial values.                                                         *)
(***************************************************************************)
EXTENDS Integers, Sequences, FiniteSets, TLC

VARIABLES
    tree,       \* the access-control tree: node name -> SchemaDataItem
    authz,      \* the last authorize_access call: its arguments and outcome
    requests,   \* the authorize_access coroutines suspended at an await
    secrets,    \* the Secret objects of the process
    files,      \* the certificate and private-key files on disk
    csr,        \* the CSR last returned by create_csr
    certchain,  \* the CertChain last returned by sign_csr
    next_key,   \* number of RSA keys generated so far
    last,       \* the last call on a Secret: method, target, arguments, error
    jwt,        \* the JWT.decode call in progress: its frame and position
    member      \* the Member._create_secret call in progress

aclVars == <<tree, authz, requests>>

secretVars == <<secrets, files, csr, certchain, next_key, last>>

jwtVars == <<jwt>>

memberVars == <<member>>

vars == <<tree, authz, requests, secrets, files, csr, certchain, next_key, last, jwt,
          member>>

\* Python's None, where the value otherwise is a string.
None == "None"

\* Python's None, where the value otherwise is an object (a certificate, a
\* CSR, a CertChain).
Null == [none |-> TRUE]

\* Python's None, where the value otherwise is a private key; keys are
\* numbered from 1.
NoKey == 0

\* Python's None, where the value otherwise is a Secret.
NoSecret == 0

\* No JWT.decode call is in progress.
NoDecode == [pc |-> "idle"]

JwtIdle == jwt = NoDecode

(***************************************************************************)
(*                       Secret / CA (secret.py)                           *)
(***************************************************************************)

\* Number of Secret objects the process holds at a time.
NumSecrets == 2

\* Number of RSA keys generated in a run.
MaxKeys == 2

\* Number of (certificate file, private-key file) locations on disk.
NumFiles == 1

SecretIds == 1..NumSecrets

KeyIds == 1..MaxKeys

FileIds == 1..NumFiles

\* Longest cert_chain a CertChain returned by sign_csr may have.
MaxChain == 2

\* What create and create_csr are asked for: a CA under its common name,
\* or a leaf under its common name.
Requests ==
    { [common_name |-> "ca.byoda.net", ca |-> TRUE],
      [common_name |-> "pod.byoda.net", ca |-> FALSE] }

\* Passwords given to save and load; 'byoda' is the default of both.
Passwords == {"byoda", "secret"}

\* Exceptions a call on a Secret ends with; None is a normal return.
Errors == {None, "ValueError", "AttributeError", "TypeError",
           "FileNotFoundError", "PathBuildingError", "KeyError",
           "InvalidToken"}

\* No Fernet key: shared_key of a Secret without one, and the fernet
\* attribute while it is not set.
NoSharedKey == 0

\* Secret.__init__: a Secret without key, certificate or chain, bound to
\* the files it is saved to and loaded from.
SecretInit(cert_file, key_file) ==
    [private_key      |-> NoKey,
     private_key_file |-> key_file,
     cert             |-> Null,
     cert_file        |-> cert_file,
     password         |-> None,
     common_name      |-> None,
     is_root_cert     |-> FALSE,
     ca               |-> FALSE,
     cert_chain       |-> <<>>,
     shared_key           |-> NoSharedKey,
     protected_shared_key |-> Null,
     fernet               |-> NoSharedKey]

\* An X.509 certificate as x509.CertificateBuilder().sign(key) builds it:
\* subject, issuer, public key, BasicConstraints.ca and the key it was
\* signed with.
Certificate(subject, issuer, public_key, ca, signing_key) ==
    [subject    |-> subject,
     issuer     |-> issuer,
     public_key |-> public_key,
     ca         |-> ca,
     signed_by  |-> signing_key]

\* Secret.get_cert_name: the subject of certificates and CSRs; C, ST, L
\* and O are the same for all, the common name is str(self.common_name).
GetCertName(secret) ==
    [C |-> "SW", ST |-> "SW", L |-> "local", O |-> "memyselfandi",
     CN |-> secret.common_name]

\* The CertificateSigningRequest create_csr returns.
CertificateSigningRequest(subject, public_key, ca, signing_key) ==
    [subject    |-> subject,
     public_key |-> public_key,
     ca         |-> ca,
     signed_by  |-> signing_key,
     algorithm  |-> "sha256WithRSAEncryption",
     hash       |-> "sha256"]

\* class CertChain: a signed certificate and the certificates of the CAs
\* that lead to it.
CertChain(signed_cert, cert_chain) ==
    [signed_cert |-> signed_cert, cert_chain |-> cert_chain]

\* The file locations of the model.
CertFile(f) == <<"cert", f>>

KeyFile(f) == <<"key", f>>

FileNames == {CertFile(f) : f \in FileIds} \cup {KeyFile(f) : f \in FileIds}

\* A file that does not exist, and a file holding 'data'.
Absent == [exists |-> FALSE]

File(data) == [exists |-> TRUE, data |-> data]

\* os.path.exists
Exists(path) == files[path].exists

\* A call that returned nothing, or raised.
NoResult == <<>>

\* What a call leaves in 'last'.
Call(op, s, args, error) ==
    [op |-> op, target |-> s, args |-> args, error |-> error,
     result |-> NoResult]

NoSecretCall == Call(None, NoSecret, <<>>, None)

\* Member._create_secret has not been called.
NoMember == [pc |-> None]

MemberIdle == member = NoMember

\* No Secret has been built yet: every slot holds a fresh Secret.
SecretsIdle ==
    /\ secrets = [s \in SecretIds |-> SecretInit(CertFile(1), KeyFile(1))]
    /\ files = [n \in FileNames |-> Absent]
    /\ csr = Null
    /\ certchain = Null
    /\ next_key = 0
    /\ last = NoSecretCall

(***************************************************************************)
(*                     AccessControlTree (dataclass.py)                    *)
(***************************************************************************)

\* Number of service ids a schema, a request or a credential may carry.
NumServices == 2

\* Largest recursion depth a request may ask for.
MaxDepth == 1

ServiceIds == 1..NumServices

Depths == 0..MaxDepth

\* DataOperationType values used by requests and by access rights.
Operations == {"read", "update"}

\* Kinds of caller a credential (RequestAuth) can stand for, which are also
\* the RightsEntityType keys of the '#accesscontrol' object.
EntityTypes == {"member", "service"}

\* The three values of authorize_access: True, False and None.
Allow == "True"

Deny == "False"

Indeterminate == None

\* A RequestAuth as far as authorize_access reads it.
Auths == [service_id : ServiceIds, id_type : EntityTypes]

\* The '#accesscontrol' declarations a node of the model may carry, as the
\* ordered mapping parse_access_controls builds: entity type -> list of
\* access rights.  The empty mapping is a node without '#accesscontrol'.
AccessRightsChoices ==
    { <<>>,
      << [entity |-> "member",
          rights |-> << [data_operation |-> "read"] >>] >>,
      << [entity |-> "service",
          rights |-> << [data_operation |-> "update"] >>],
         [entity |-> "member",
          rights |-> << [data_operation |-> "update"],
                        [data_operation |-> "read"] >>] >> }

\* Names of the data classes of the schema of the model:
\*   links   array of objects of class link          (SchemaDataArray, $ref)
\*   link    object with the fields name and tags    (SchemaDataObject)
\*   name    scalar                                  (SchemaDataScalar)
\*   tags    array of scalars                        (SchemaDataArray, type)
\*   tag     the anonymous scalar class of tags      (SchemaDataScalar)
Nodes == {"links", "link", "name", "tags", "tag"}

NodeType ==
    [links |-> "array", link |-> "object", name |-> "scalar",
     tags |-> "array", tag |-> "scalar"]

\* SchemaDataObject.fields, in the order of the schema's 'properties'.
NodeFields ==
    [links |-> <<>>, link |-> <<"name", "tags">>, name |-> <<>>,
     tags |-> <<>>, tag |-> <<>>]

\* SchemaDataArray.referenced_class.
NodeReferencedClass ==
    [links |-> "link", link |-> None, name |-> None,
     tags |-> "tag", tag |-> None]

\* SchemaDataItem.__init__: every node built from one schema takes the
\* schema's service_id; its access rights come from parse_access_controls.
SchemaDataItemInit(n, schema_service_id, rights) ==
    [name             |-> n,
     type             |-> NodeType[n],
     service_id       |-> schema_service_id,
     access_rights    |-> rights,
     fields           |-> NodeFields[n],
     referenced_class |-> NodeReferencedClass[n]]

\* DataAccessRight.authorize: whether one access right lets the caller do
\* the operation.  The class lives outside the sources at hand; a right is
\* taken to allow exactly the operation it names to callers of its entity
\* type.
AccessRightAuthorize(entity, access_right, auth, service_id, operation, depth) ==
    /\ entity = auth.id_type
    /\ access_right.data_operation = operation

\* The access rights of a node flattened in the order authorize_access walks
\* them: for every entity type of the mapping, every right of its list.
RECURSIVE FlattenRights(_)
FlattenRights(access_rights) ==
    IF access_rights = <<>> THEN <<>>
    ELSE LET group == Head(access_rights)
         IN  [i \in 1..Len(group.rights) |->
                 [entity |-> group.entity, right |-> group.rights[i]]]
             \o FlattenRights(Tail(access_rights))

\* Mutant of RightsLoop: the first access right decides.
RightsLoop_FirstDecides(flat, operation, auth, service_id, depth) ==
    IF flat = <<>> THEN Indeterminate
    ELSE IF AccessRightAuthorize(Head(flat).entity, Head(flat).right, auth,
                                 service_id, operation, depth)
    THEN Allow
    ELSE Indeterminate

\* The two loops of SchemaDataItem.authorize_access over the access
\* rights: each right is asked in turn, True is returned at the first one
\* that allows, None after the last.
RECURSIVE RightsLoop(_, _, _, _, _)
RightsLoop(flat, operation, auth, service_id, depth) ==
    IF flat = <<>> THEN Indeterminate
    ELSE IF AccessRightAuthorize(Head(flat).entity, Head(flat).right, auth,
                                 service_id, operation, depth)
    THEN Allow
    ELSE RightsLoop(Tail(flat), operation, auth, service_id, depth)

\* Mutant of ItemAuthorizeAccess: the service id of the request is held
\* against the service id of the node instead of the one of the
\* credentials.
ItemAuthorizeAccess_NodeService(node, operation, auth, service_id, depth) ==
    IF service_id # node.service_id THEN Deny
    ELSE IF node.access_rights = <<>> THEN Indeterminate
    ELSE LET flat == FlattenRights(node.access_rights)
         IN  IF \E i \in 1..Len(flat) :
                    AccessRightAuthorize(flat[i].entity, flat[i].right,
                                         auth, service_id, operation, depth)
             THEN Allow
             ELSE Indeterminate

\* Mutant of ItemAuthorizeAccess: access rights of which none allows
\* yield False instead of None.
ItemAuthorizeAccess_DenyWhenExhausted(node, operation, auth, service_id, depth) ==
    IF service_id # auth.service_id THEN Deny
    ELSE IF node.access_rights = <<>> THEN Indeterminate
    ELSE LET flat == FlattenRights(node.access_rights)
         IN  IF \E i \in 1..Len(flat) :
                    AccessRightAuthorize(flat[i].entity, flat[i].right,
                                         auth, service_id, operation, depth)
             THEN Allow
             ELSE Deny

\* SchemaDataItem.authorize_access: the node's own determination.
ItemAuthorizeAccess(node, operation, auth, service_id, depth) ==
    IF service_id # auth.service_id THEN Deny
    ELSE IF node.access_rights = <<>> THEN Indeterminate
    ELSE RightsLoop(FlattenRights(node.access_rights), operation, auth,
                    service_id, depth)

\* The children a container node passes the request on to:
\* SchemaDataObject walks self.fields.values(), SchemaDataArray its
\* referenced_class when it has one.
Children(node) ==
    IF node.type = "object" THEN node.fields
    ELSE IF node.type = "array" /\ node.referenced_class # None
         THEN << node.referenced_class >>
    ELSE <<>>

\* The loop over the children of a container: each child is asked in
\* order and the loop is left at the first child that returns False.
\* 'outcome' maps every child to what its authorize_access yields; the
\* value lists the results obtained and the nodes entered on the way.
RECURSIVE ChildWalk(_, _)
ChildWalk(children, outcome) ==
    IF children = <<>> THEN [results |-> <<>>, visited |-> <<>>]
    ELSE LET first == outcome[Head(children)]
         IN  IF first.result = Deny
             THEN [results |-> << Deny >>, visited |-> first.visited]
             ELSE LET rest == ChildWalk(Tail(children), outcome)
                  IN  [results |-> << first.result >> \o rest.results,
                       visited |-> first.visited \o rest.visited]

\* Mutant of ContainerAuthorizeAccess: the result of a child that allows
\* replaces an own determination of None.
ContainerAuthorizeAccess_ChildUpgrades(node, own, walk) ==
    IF own = Deny
    THEN [result |-> Deny, visited |-> << node.name >>]
    ELSE IF \E i \in 1..Len(walk.results) : walk.results[i] = Deny
    THEN [result |-> Deny, visited |-> << node.name >> \o walk.visited]
    ELSE IF own = Indeterminate
            /\ \E i \in 1..Len(walk.results) : walk.results[i] = Allow
    THEN [result |-> Allow, visited |-> << node.name >> \o walk.visited]
    ELSE [result |-> own, visited |-> << node.name >> \o walk.visited]

\* SchemaDataObject.authorize_access and SchemaDataArray.authorize_access,
\* given the node's own determination (the call of super()) and the walk
\* over its children: False at once when the own determination is False,
\* False when a child returned False, the own determination otherwise.
ContainerAuthorizeAccess(node, own, walk) ==
    IF own = Deny
    THEN [result |-> Deny, visited |-> << node.name >>]
    ELSE IF \E i \in 1..Len(walk.results) : walk.results[i] = Deny
    THEN [result |-> Deny, visited |-> << node.name >> \o walk.visited]
    ELSE [result |-> own, visited |-> << node.name >> \o walk.visited]

\* authorize_access as dispatched on the class of the node: every child is
\* called with the same operation, auth, service_id and depth.  The value
\* is the result and the list of nodes whose authorize_access was entered,
\* in call order.
RECURSIVE AuthorizeAccess(_, _, _, _, _, _)
AuthorizeAccess(t, n, operation, auth, service_id, depth) ==
    LET node == t[n]
        own  == ItemAuthorizeAccess(node, operation, auth, service_id, depth)
    IN  IF node.type = "scalar"
        THEN [result |-> own, visited |-> << n >>]
        ELSE LET kids == Children(node)
                 outcome ==
                     [c \in {kids[i] : i \in 1..Len(kids)} |->
                         AuthorizeAccess(t, c, operation, auth,
                                         service_id, depth)]
             IN  ContainerAuthorizeAccess(node, own, ChildWalk(kids, outcome))

NoCall == [node |-> None]

\* Requests the event loop answers at the same time.
NumRequests == 2

\* The value of a call that has not returned yet.
Pending == "pending"

\* No request has come in.
NoRequest == [node |-> None, result |-> Pending, stack |-> <<>>]

NoRequests == [r \in 1..NumRequests |-> NoRequest]

\* The schema is parsed once: one service id for the whole schema, and for
\* every data class one of the access-control declarations.
InitACL ==
    /\ \E sid \in ServiceIds :
       \E rights \in [Nodes -> AccessRightsChoices] :
           tree = [n \in Nodes |-> SchemaDataItemInit(n, sid, rights[n])]
    /\ authz = NoCall
    /\ requests = NoRequests
    /\ SecretsIdle
    /\ JwtIdle
    /\ MemberIdle

\* One call of authorize_access on a node of the tree, for a request that
\* came in while no other was being answered.
Authorize(n, operation, auth, service_id, depth) ==
    LET out == AuthorizeAccess(tree, n, operation, auth, service_id, depth)
    IN  /\ authz = NoCall
        /\ authz' = [node       |-> n,
                     operation  |-> operation,
                     auth       |-> auth,
                     service_id |-> service_id,
                     depth      |-> depth,
                     own        |-> ItemAuthorizeAccess(tree[n], operation,
                                        auth, service_id, depth),
                     result     |-> out.result,
                     visited    |-> out.visited]
        /\ UNCHANGED <<tree, requests, secretVars, jwtVars, memberVars>>

\* The request has been answered; the next one may come in.
RequestDone ==
    /\ authz # NoCall
    /\ authz' = NoCall
    /\ UNCHANGED <<tree, requests, secretVars, jwtVars, memberVars>>

NextACL ==
    \/ \E n \in Nodes, operation \in Operations, auth \in Auths,
          service_id \in ServiceIds, depth \in Depths :
           Authorize(n, operation, auth, service_id, depth)
    \/ RequestDone

SpecACL == InitACL /\ [][NextACL]_vars

(***************************************************************************)
(* authorize_access as the coroutine it is: a request is a stack of calls, *)
(* and the event loop may run another request at every await (the call of  *)
(* super() and the call of every child).  A frame is the node whose        *)
(* authorize_access runs, its own determination once super() has returned, *)
(* and the number of the child it asks next.                               *)
(***************************************************************************)

CallFrame(n) == [node |-> n, own |-> Pending, next |-> 1]

\* A call returns 'value' to its caller, the first frame of 'stack'; the
\* caller goes on to its next await without being suspended.  Continue is
\* the loop over the children: the next child is called, or the own
\* determination is returned after the last.  Returned is the check of
\* what a child returned: False is returned at once.
RECURSIVE Continue(_, _, _)
RECURSIVE Returned(_, _, _, _)
Continue(t, request, stack) ==
    LET top  == Head(stack)
        kids == Children(t[top.node])
    IN  IF top.next <= Len(kids)
        THEN [request EXCEPT
                 !.stack = << CallFrame(kids[top.next]),
                              [top EXCEPT !.next = @ + 1] >> \o Tail(stack)]
        ELSE Returned(t, request, Tail(stack), top.own)

Returned(t, request, stack, value) ==
    IF stack = <<>>
    THEN [request EXCEPT !.stack = <<>>, !.result = value]
    ELSE IF value = Deny
    THEN Returned(t, request, Tail(stack), Deny)
    ELSE Continue(t, request, stack)

\* Mutant of AuthorizeStep: a node drops its access rights once they were
\* evaluated.
AuthorizeStep_ConsumesRights(t, request) ==
    LET top  == Head(request.stack)
        node == t[top.node]
        own  == ItemAuthorizeAccess(node, request.operation, request.auth,
                                    request.service_id, request.depth)
    IN  [tree    |-> [t EXCEPT ![top.node].access_rights = <<>>],
         request |->
             IF own = Deny \/ node.type = "scalar"
             THEN Returned(t, request, Tail(request.stack), own)
             ELSE Continue(t, request,
                           << [top EXCEPT !.own = own] >>
                               \o Tail(request.stack))]

\* The request runs from one await to the next: the authorize_access of
\* SchemaDataItem is evaluated for the node called last, its class then
\* returns (a scalar; a container whose own determination is False) or
\* calls its first child.  The value is the tree and the request after
\* the step; no assignment to a node is made.
AuthorizeStep(t, request) ==
    LET top  == Head(request.stack)
        node == t[top.node]
        own  == ItemAuthorizeAccess(node, request.operation, request.auth,
                                    request.service_id, request.depth)
    IN  [tree    |-> t,
         request |->
             IF own = Deny \/ node.type = "scalar"
             THEN Returned(t, request, Tail(request.stack), own)
             ELSE Continue(t, request,
                           << [top EXCEPT !.own = own] >>
                               \o Tail(request.stack))]

\* A request comes in: authorize_access is called on a node.
StartRequest(r, n, operation, auth, service_id, depth) ==
    /\ requests[r] = NoRequest
    /\ requests' = [requests EXCEPT ![r] =
                       [node       |-> n,
                        operation  |-> operation,
                        auth       |-> auth,
                        service_id |-> service_id,
                        depth      |-> depth,
                        result     |-> Pending,
                        stack      |-> << CallFrame(n) >>]]
    /\ UNCHANGED <<tree, authz, secretVars, jwtVars, memberVars>>

\* The event loop resumes request r.
ResumeRequest(r) ==
    /\ requests[r].stack # <<>>
    /\ LET out == AuthorizeStep(tree, requests[r])
       IN  /\ tree' = out.tree
           /\ requests' = [requests EXCEPT ![r] = out.request]
    /\ UNCHANGED <<authz, secretVars, jwtVars, memberVars>>

\* The request has its answer.
FinishRequest(r) ==
    /\ requests[r].result # Pending
    /\ requests' = [requests EXCEPT ![r] = NoRequest]
    /\ UNCHANGED <<tree, authz, secretVars, jwtVars, memberVars>>

\* The containers of the schema carry one of the access-control
\* declarations each, the scalars none.
InitConcurrent ==
    /\ \E sid \in ServiceIds :
       \E rights \in [{"links", "link"} -> AccessRightsChoices] :
           tree = [n \in Nodes |->
                      SchemaDataItemInit(n, sid,
                          IF n \in DOMAIN rights THEN rights[n] ELSE <<>>)]
    /\ authz = NoCall
    /\ requests = NoRequests
    /\ SecretsIdle
    /\ JwtIdle
    /\ MemberIdle

NextConcurrent ==
    \/ \E r \in 1..NumRequests, n \in {"links", "link"},
          operation \in Operations, auth \in Auths,
          service_id \in ServiceIds :
           StartRequest(r, n, operation, auth, service_id, 0)
    \/ \E r \in 1..NumRequests : ResumeRequest(r)
    \/ \E r \in 1..NumRequests : FinishRequest(r)

SpecConcurrent == InitConcurrent /\ [][NextConcurrent]_vars


(***************************************************************************)
(*                  Properties of the AccessControlTree                    *)
(***************************************************************************)

Called == authz # NoCall

\* Whether some access right of the node, of whatever entity type, lets
\* the caller of the recorded request do the requested operation.
SomeRightAllows(node) ==
    \E g \in 1..Len(node.access_rights) :
        \E i \in 1..Len(node.access_rights[g].rights) :
            AccessRightAuthorize(node.access_rights[g].entity,
                                 node.access_rights[g].rights[i],
                                 authz.auth, authz.service_id,
                                 authz.operation, authz.depth)

\* What each child of the called node yields for the recorded request.
ChildResults ==
    LET kids == Children(tree[authz.node])
    IN  [i \in 1..Len(kids) |->
            AuthorizeAccess(tree, kids[i], authz.operation, authz.auth,
                            authz.service_id, authz.depth).result]

IsContainer(n) == tree[n].type \in {"object", "array"}

\* C1, as the specification words it: authorize_access returns False
\* whenever the service id of the request (callerServiceId) differs from
\* the service id of the node itself (SchemaDataItem.service_id), whatever
\* the access rights say.
C1_DenyWhenNodeServiceDiffers ==
    (Called /\ authz.service_id # tree[authz.node].service_id)
        => authz.result = Deny

\* C1, amended: authorize_access returns False whenever the service id of
\* the request differs from the service id of the caller's credentials
\* (auth.service_id), whatever the access rights say and whatever the
\* service id of the node is.
C1_DenyWhenCredentialServiceDiffers ==
    (Called /\ authz.service_id # authz.auth.service_id)
        => (authz.result = Deny /\ authz.own = Deny)

\* C1 witness: a request whose service id differs from the one of the
\* credentials is denied on a node whose access rights allow the caller
\* the operation and whose own service id equals the one of the request.
C1_Witness ==
    /\ Called
    /\ authz.service_id # authz.auth.service_id
    /\ authz.service_id = tree[authz.node].service_id
    /\ SomeRightAllows(tree[authz.node])
    /\ authz.result = Deny

\* C5: when the service ids of request and credentials match, the own
\* determination of a node is True if and only if one of its access rights
\* allows, and None otherwise, also for a node without access rights; it
\* is never False.
C5_OwnDetermination ==
    (Called /\ authz.service_id = authz.auth.service_id)
        => /\ authz.own = Allow <=> SomeRightAllows(tree[authz.node])
           /\ authz.own # Allow => authz.own = Indeterminate
           /\ tree[authz.node].access_rights = <<>>
                  => authz.own = Indeterminate
           /\ tree[authz.node].type = "scalar" => authz.result = authz.own

\* C5 witness: a node with access rights of which none allows the caller
\* yields None.
C5_Witness ==
    /\ Called
    /\ authz.service_id = authz.auth.service_id
    /\ tree[authz.node].access_rights # <<>>
    /\ ~SomeRightAllows(tree[authz.node])
    /\ authz.own = Indeterminate
    /\ authz.result = Indeterminate

\* C6: on an object or array node, an own determination of False is
\* returned without entering any child; otherwise, when no child yields
\* False, the result is the own determination of the node, so a child that
\* allows does not turn None into True.
C6_ContainerResult ==
    (Called /\ IsContainer(authz.node))
        => /\ authz.own = Deny
                  => (authz.result = Deny /\ authz.visited = << authz.node >>)
           /\ (authz.own # Deny
               /\ \A i \in DOMAIN ChildResults : ChildResults[i] # Deny)
                  => authz.result = authz.own

\* C6 witness: a container whose own determination is None and one of
\* whose children allows yields None, after entering its children.
C6_Witness ==
    /\ Called
    /\ IsContainer(authz.node)
    /\ authz.own = Indeterminate
    /\ \E i \in DOMAIN ChildResults : ChildResults[i] = Allow
    /\ \A i \in DOMAIN ChildResults : ChildResults[i] # Deny
    /\ Len(authz.visited) > 1
    /\ authz.result = Indeterminate

\* C6 second witness: a container denied by its own determination, with
\* no child entered.
C6_WitnessFailFast ==
    /\ Called
    /\ IsContainer(authz.node)
    /\ authz.own = Deny
    /\ authz.visited = << authz.node >>

\* The case C4 is about: a container whose own determination is True and
\* one of whose children yields False.
C4_Case ==
    /\ Called
    /\ IsContainer(authz.node)
    /\ authz.own = Allow
    /\ \E i \in DOMAIN ChildResults : ChildResults[i] = Deny

\* C4: a container whose own determination is True and one of whose
\* children yields False returns False.
C4_Veto == C4_Case => authz.result = Deny

\* The case of C4 does not arise: every child is called with the service
\* id and credentials of its parent, and only their mismatch yields False.
C4_CaseNeverArises == ~C4_Case


(***************************************************************************)
(*                    Operations of Secret (secret.py)                     *)
(***************************************************************************)

\* Python's str() of a bool.
Str(b) == IF b THEN "True" ELSE "False"

\* The guard, had it looked at the certificate alone.
HasKeyOrCert_CertOnly(secret) == secret.cert # Null

\* The guard create, create_csr and load open with: the Secret already
\* holds a private key or a certificate.
HasKeyOrCert(secret) == secret.private_key # NoKey \/ secret.cert # Null

\* rsa.generate_private_key: a key no Secret was given before.  The public
\* key of a private key carries the same number.
FreshKey == next_key + 1

\* Whether the run may still generate a key.
CanGenerateKey == next_key < MaxKeys

\* create_selfsigned_cert, had it marked the Secret as root and returned
\* without building the certificate.
CreateSelfsignedCertOn_NoCert(secret, ca) ==
    [secret |-> [secret EXCEPT !.is_root_cert = TRUE],
     error  |-> IF secret.private_key = NoKey THEN "AttributeError" ELSE None]

\* The body of Secret.create_selfsigned_cert on a Secret value: the
\* Secret is marked as root first, then the certificate is built and
\* signed with the Secret's own key.
CreateSelfsignedCertOn(secret, ca) ==
    LET marked == [secret EXCEPT !.is_root_cert = TRUE]
    IN  IF secret.private_key = NoKey
        THEN [secret |-> marked, error |-> "AttributeError"]
        ELSE [secret |->
                 [marked EXCEPT !.cert =
                     Certificate(GetCertName(secret), GetCertName(secret),
                                 secret.private_key, ca, secret.private_key)],
              error |-> None]

\* create_csr, had it lacked its opening guard.
CreateCsrOn_NoGuard(secret, common_name, ca, key) ==
    LET named == [secret EXCEPT !.common_name = common_name,
                                !.private_key = key]
    IN  [secret |-> named,
         csr    |-> CertificateSigningRequest(GetCertName(named), key, ca, key),
         error  |-> None]

\* The body of Secret.create_csr on a Secret value, 'key' being the key
\* rsa.generate_private_key yields.
CreateCsrOn(secret, common_name, ca, key) ==
    IF HasKeyOrCert(secret)
    THEN [secret |-> secret, csr |-> Null, error |-> "ValueError"]
    ELSE LET named == [secret EXCEPT !.common_name = common_name,
                                     !.private_key = key]
         IN  [secret |-> named,
              csr    |-> CertificateSigningRequest(GetCertName(named), key,
                                                   ca, key),
              error  |-> None]

VALID_SIGNATURE_ALGORITHMS == {"sha256WithRSAEncryption"}

VALID_SIGNATURE_HASHES == {"sha256"}

IGNORED_X509_NAMES == {"C", "ST", "L", "O"}

\* self.network of the Secret that reviews: the attribute is read by
\* review_csr and set by the constructors of the classes derived from
\* Secret.
SecretNetwork == "byoda.net"

\* The dot-separated labels of the names of the model.
Labels(name) ==
    CASE name = "byoda.net"             -> << "byoda", "net" >>
      [] name = "ca.byoda.net"          -> << "ca", "byoda", "net" >>
      [] name = "pod.byoda.net"         -> << "pod", "byoda", "net" >>
      [] name = "accounts-ca.byoda.net" -> << "accounts-ca", "byoda", "net" >>
      [] name = "members-ca.byoda.net"  -> << "members-ca", "byoda", "net" >>
      [] name = "podbyoda.net"          -> << "podbyoda", "net" >>
      [] name = "pod.other.org"         -> << "pod", "other", "org" >>
      [] name = "True"                  -> << "True" >>
      [] name = "False"                 -> << "False" >>
      [] name = "None"                  -> << "None" >>

\* commonname.endswith('.' + network), on labels.
EndsWithPostfix(commonname, network) ==
    /\ Len(commonname) > Len(network)
    /\ SubSeq(commonname, Len(commonname) - Len(network) + 1,
              Len(commonname)) = network

\* commonname[:-1 * len(postfix)], on labels.
StripPostfix(commonname, network) ==
    SubSeq(commonname, 1, Len(commonname) - Len(network))

\* csr.is_signature_valid: the request is signed with the key it asks a
\* certificate for.
IsSignatureValid(request) == request.signed_by = request.public_key

\* review_csr, had it accepted every attribute of the subject.
ReviewCsrOn_AnyAttribute(secret, request) ==
    IF ~secret.ca
    THEN [result |-> NoResult, error |-> "ValueError"]
    ELSE IF ~IsSignatureValid(request)
    THEN [result |-> NoResult, error |-> "ValueError"]
    ELSE IF request.algorithm \notin VALID_SIGNATURE_ALGORITHMS
    THEN [result |-> NoResult, error |-> "ValueError"]
    ELSE IF request.hash \notin VALID_SIGNATURE_HASHES
    THEN [result |-> NoResult, error |-> "ValueError"]
    ELSE IF "CN" \notin DOMAIN request.subject
    THEN [result |-> NoResult, error |-> "ValueError"]
    ELSE IF ~EndsWithPostfix(Labels(request.subject.CN),
                             Labels(SecretNetwork))
    THEN [result |-> NoResult, error |-> "ValueError"]
    ELSE [result |-> StripPostfix(Labels(request.subject.CN),
                                  Labels(SecretNetwork)),
          error  |-> None]

\* The body of Secret.review_csr: only a Secret whose ca flag is set
\* reviews; the signature, its algorithm and its hash are checked, then
\* the attributes of the subject, then the common name against the
\* network of the Secret.
ReviewCsrOn(secret, request) ==
    IF ~secret.ca
    THEN [result |-> NoResult, error |-> "ValueError"]
    ELSE IF ~IsSignatureValid(request)
    THEN [result |-> NoResult, error |-> "ValueError"]
    ELSE IF request.algorithm \notin VALID_SIGNATURE_ALGORITHMS
    THEN [result |-> NoResult, error |-> "ValueError"]
    ELSE IF request.hash \notin VALID_SIGNATURE_HASHES
    THEN [result |-> NoResult, error |-> "ValueError"]
    ELSE IF \E key \in DOMAIN request.subject :
                key \notin IGNORED_X509_NAMES \cup {"CN"}
    THEN [result |-> NoResult, error |-> "ValueError"]
    ELSE IF "CN" \notin DOMAIN request.subject
    THEN [result |-> NoResult, error |-> "ValueError"]
    ELSE IF ~EndsWithPostfix(Labels(request.subject.CN),
                             Labels(SecretNetwork))
    THEN [result |-> NoResult, error |-> "ValueError"]
    ELSE [result |-> StripPostfix(Labels(request.subject.CN),
                                  Labels(SecretNetwork)),
          error  |-> None]

\* sign_csr, had it signed for any Secret that holds certificate and key.
SignCsrOn_AnySigner(secret, request) ==
    IF secret.cert = Null
    THEN [certchain |-> Null, error |-> "AttributeError"]
    ELSE IF secret.private_key = NoKey
    THEN [certchain |-> Null, error |-> "TypeError"]
    ELSE [certchain |->
             CertChain(Certificate(request.subject, secret.cert.subject,
                                   request.public_key, request.ca,
                                   secret.private_key),
                       Append(secret.cert_chain, secret.cert)),
          error |-> None]

\* The body of Secret.sign_csr: only a Secret whose ca flag is set signs;
\* the new certificate takes subject, public key and CA constraint from
\* the request and the issuer from the signer's certificate; the chain
\* handed back is a copy of the signer's chain, with the signer's
\* certificate appended unless the signer is marked as root.
SignCsrOn(secret, request) ==
    IF ~secret.ca
    THEN [certchain |-> Null, error |-> "ValueError"]
    ELSE IF secret.cert = Null
    THEN [certchain |-> Null, error |-> "AttributeError"]
    ELSE IF secret.private_key = NoKey
    THEN [certchain |-> Null, error |-> "TypeError"]
    ELSE LET cert == Certificate(request.subject, secret.cert.subject,
                                 request.public_key, request.ca,
                                 secret.private_key)
             chain == IF secret.is_root_cert
                      THEN secret.cert_chain
                      ELSE Append(secret.cert_chain, secret.cert)
         IN  [certchain |-> CertChain(cert, chain), error |-> None]

\* The paths certvalidator builds from a certificate to the trust root and
\* validates: an issuer is looked up by name among the trust root and the
\* intermediate certificates; a path is valid when every certificate on it
\* is signed with the key of the next one and every intermediate is a CA.
\* "ok" when some path is valid, "invalid" when paths are found and none
\* is valid, "nopath" when no path reaches the trust root.
RECURSIVE BuildPath(_, _, _, _)
BuildPath(cert, trust_root, intermediates, depth) ==
    LET anchored ==
            IF cert.issuer # trust_root.subject THEN {}
            ELSE IF cert.signed_by = trust_root.public_key THEN {"ok"}
            ELSE {"invalid"}
        issuers ==
            {i \in 1..Len(intermediates) :
                /\ intermediates[i].subject = cert.issuer
                /\ intermediates[i] # cert}
        Through(i) ==
            LET above == BuildPath(intermediates[i], trust_root,
                                   intermediates, depth - 1)
            IN  IF above = "nopath" THEN "nopath"
                ELSE IF /\ above = "ok"
                        /\ intermediates[i].ca
                        /\ cert.signed_by = intermediates[i].public_key
                THEN "ok"
                ELSE "invalid"
        found == anchored \cup
                 (IF depth = 0 THEN {} ELSE {Through(i) : i \in issuers})
    IN  IF "ok" \in found THEN "ok"
        ELSE IF "invalid" \in found THEN "invalid"
        ELSE "nopath"

\* validate, had it accepted whatever chain it was given.
ValidateOn_AnyRoot(secret, root_ca) ==
    IF secret.cert = Null \/ root_ca.cert = Null
    THEN "AttributeError"
    ELSE None

\* The body of Secret.validate: the certificate and its chain are handed
\* to certvalidator with the certificate of root_ca as the only trust
\* root; a ValidationError becomes a ValueError, a path that cannot be
\* built is reported by certvalidator's PathBuildingError, unless the
\* certificate is self-signed.
ValidateOn(secret, root_ca) ==
    IF secret.cert = Null \/ root_ca.cert = Null
    THEN "AttributeError"
    ELSE LET path == BuildPath(secret.cert, root_ca.cert, secret.cert_chain,
                               Len(secret.cert_chain))
         IN  CASE path = "ok"      -> None
               [] path = "invalid" -> "ValueError"
               [] path = "nopath"  ->
                      IF secret.cert.issuer = secret.cert.subject
                      THEN "ValueError"
                      ELSE "PathBuildingError"

\* The body of Secret.add_signed_cert.
AddSignedCertOn(secret, chain) ==
    [secret EXCEPT !.cert = chain.signed_cert,
                   !.cert_chain = chain.cert_chain]

\* certchain_as_bytes, had it written the Secret's own certificate first.
CertchainAsBytes_LeafFirst(secret) ==
    LET certs == << secret.cert >> \o secret.cert_chain
    IN  [i \in 1..Len(certs) |->
            [comment |-> [issuer  |-> certs[i].issuer,
                          subject |-> certs[i].subject],
             pem     |-> certs[i]]]

\* Secret.certchain_as_bytes: for every certificate of the chain and then
\* for the Secret's own certificate, three comment lines and the PEM block.
CertchainAsBytes(secret) ==
    LET certs == Append(secret.cert_chain, secret.cert)
    IN  [i \in 1..Len(certs) |->
            [comment |-> [issuer  |-> certs[i].issuer,
                          subject |-> certs[i].subject],
             pem     |-> certs[i]]]

\* The re.findall of load followed by x509.load_pem_x509_certificate: the
\* certificates of the PEM blocks of the file, comments dropped.
FindCertificates(data) == [i \in 1..Len(data) |-> data[i].pem]

\* private_bytes with BestAvailableEncryption(password).
EncryptedPrivateKey(key, password) == [pem |-> key, password |-> password]

\* Secret(cert_file, key_file): a new object takes the place of Secret s.
New(s, f) ==
    /\ secrets' = [secrets EXCEPT ![s] = SecretInit(CertFile(f), KeyFile(f))]
    /\ last' = Call("__init__", s, <<>>, None)
    /\ UNCHANGED <<files, csr, certchain, next_key>>

\* Secret.create(common_name, issuing_ca, expire, key_size, ca).  With an
\* issuing CA the call goes on to self.create_csr(ca), after the key has
\* been generated.
Create(s, common_name, issuing_ca, ca) ==
    LET pre   == secrets[s]
        keyed == [pre EXCEPT !.common_name = common_name,
                             !.ca = (ca \/ pre.ca),
                             !.private_key = FreshKey]
        request == CreateCsrOn(keyed, Str(ca), FALSE, FreshKey + 1)
        signed  == SignCsrOn(secrets[issuing_ca], request.csr)
        selfsigned == CreateSelfsignedCertOn(keyed, ca)
    IN  IF HasKeyOrCert(pre)
        THEN /\ last' = Call("create", s, << issuing_ca # NoSecret >>, "ValueError")
             /\ UNCHANGED <<secrets, files, csr, certchain, next_key>>
        ELSE /\ CanGenerateKey
             /\ next_key' = next_key + 1
             /\ UNCHANGED <<files, csr, certchain>>
             /\ IF issuing_ca # NoSecret
                THEN IF request.error # None
                     THEN /\ secrets' = [secrets EXCEPT ![s] = request.secret]
                          /\ last' = Call("create", s, << issuing_ca # NoSecret >>,
                                          request.error)
                     ELSE IF signed.error # None
                     THEN /\ secrets' = [secrets EXCEPT ![s] = request.secret]
                          /\ last' = Call("create", s, << issuing_ca # NoSecret >>,
                                          signed.error)
                     ELSE /\ secrets' = [secrets EXCEPT ![s] =
                                 [request.secret EXCEPT
                                     !.cert = signed.certchain]]
                          /\ last' = Call("create", s, << issuing_ca # NoSecret >>, None)
                ELSE /\ secrets' = [secrets EXCEPT ![s] = selfsigned.secret]
                     /\ last' = Call("create", s, << issuing_ca # NoSecret >>,
                                     selfsigned.error)

\* Secret.create_csr(common_name, key_size, ca).
CreateCsr(s, common_name, ca) ==
    LET out == CreateCsrOn(secrets[s], common_name, ca, FreshKey)
    IN  /\ out.error = None => CanGenerateKey
        /\ secrets' = [secrets EXCEPT ![s] = out.secret]
        /\ csr' = IF out.error = None THEN out.csr ELSE csr
        /\ next_key' = IF out.error = None THEN next_key + 1 ELSE next_key
        /\ last' = Call("create_csr", s, <<>>, out.error)
        /\ UNCHANGED <<files, certchain>>

\* Secret.sign_csr(csr, expire), on the CSR last created.
SignCsr(s) ==
    LET out == SignCsrOn(secrets[s], csr)
    IN  /\ csr # Null
        /\ out.error = None => Len(out.certchain.cert_chain) <= MaxChain
        /\ certchain' = IF out.error = None THEN out.certchain ELSE certchain
        /\ last' = Call("sign_csr", s, <<>>, out.error)
        /\ UNCHANGED <<secrets, files, csr, next_key>>

\* The CSR in flight was created by Secret s, and the CertChain in flight
\* was issued for the key of Secret s: callers hand a Secret the signature
\* of its own request, as Member._create_secret does.
RequestedBy(s) ==
    /\ csr # Null
    /\ csr.public_key = secrets[s].private_key

IssuedFor(s) ==
    /\ certchain # Null
    /\ certchain.signed_cert.public_key = secrets[s].private_key

\* Secret.review_csr(csr), on the CSR last created.
ReviewCsr(s) ==
    LET out == ReviewCsrOn(secrets[s], csr)
    IN  /\ csr # Null
        /\ last' = [Call("review_csr", s, <<>>, out.error) EXCEPT
                       !.result = out.result]
        /\ UNCHANGED <<secrets, files, csr, certchain, next_key>>

\* Secret.validate(root_ca).
Validate(s, root_ca) ==
    /\ last' = Call("validate", s, << root_ca.cert >>,
                    ValidateOn(secrets[s], root_ca))
    /\ UNCHANGED <<secrets, files, csr, certchain, next_key>>

\* Secret.add_signed_cert(cert_chain), with the CertChain last returned by
\* sign_csr.
AddSignedCert(s) ==
    /\ IssuedFor(s)
    /\ secrets' = [secrets EXCEPT ![s] = AddSignedCertOn(secrets[s], certchain)]
    /\ last' = Call("add_signed_cert", s, <<>>, None)
    /\ UNCHANGED <<files, csr, certchain, next_key>>

\* Secret.get_csr_signature(csr, issuing_ca, expire):
\* self.add_signed_cert(issuing_ca.sign_csr(csr)).
GetCsrSignature(s, issuing_ca) ==
    LET out == SignCsrOn(secrets[issuing_ca], csr)
    IN  /\ RequestedBy(s)
        /\ out.error = None => Len(out.certchain.cert_chain) <= MaxChain
        /\ secrets' = IF out.error = None
                      THEN [secrets EXCEPT ![s] =
                               AddSignedCertOn(secrets[s], out.certchain)]
                      ELSE secrets
        /\ last' = Call("get_csr_signature", s, <<>>, out.error)
        /\ UNCHANGED <<files, csr, certchain, next_key>>

\* Secret.create_selfsigned_cert(), called on its own with the defaults of
\* its parameters (ca = False), at the point where create calls it: the
\* Secret holds a key and no certificate yet.
CreateSelfsignedCert(s) ==
    LET out == CreateSelfsignedCertOn(secrets[s], FALSE)
    IN  /\ secrets[s].private_key # NoKey
        /\ secrets[s].cert = Null
        /\ secrets' = [secrets EXCEPT ![s] = out.secret]
        /\ last' = Call("create_selfsigned_cert", s, <<>>, out.error)
        /\ UNCHANGED <<files, csr, certchain, next_key>>

\* The guards of save, had the second one been left out.
SaveRefused_CertFileOnly(secret) == Exists(secret.cert_file)

\* The two guards save opens with: the certificate file exists, or the
\* private-key file exists.
SaveRefused(secret) ==
    \/ Exists(secret.cert_file)
    \/ Exists(secret.private_key_file)

\* Secret.save(password): refuses to overwrite either file, then writes
\* the certificate file (opened for writing before its content is built)
\* and, when the Secret has a private key, the key file.
Save(s, password) ==
    LET pre == secrets[s]
    IN  /\ UNCHANGED <<secrets, csr, certchain, next_key>>
        /\ IF SaveRefused(pre)
           THEN /\ last' = Call("save", s, <<>>, "ValueError")
                /\ UNCHANGED files
           ELSE IF pre.cert = Null
           THEN /\ files' = [files EXCEPT ![pre.cert_file] = File(<<>>)]
                /\ last' = Call("save", s, <<>>, "AttributeError")
           ELSE /\ files' =
                    [files EXCEPT
                        ![pre.cert_file] = File(CertchainAsBytes(pre)),
                        ![pre.private_key_file] =
                            IF pre.private_key # NoKey
                            THEN File(EncryptedPrivateKey(pre.private_key,
                                                          password))
                            ELSE Absent]
                /\ last' = Call("save", s, <<>>, None)

\* Secret.load(with_private_key, password).
Load(s, with_private_key, password) ==
    LET pre   == secrets[s]
        certs == FindCertificates(files[pre.cert_file].data)
        with_cert ==
            [pre EXCEPT !.cert = certs[Len(certs)],
                        !.cert_chain = IF Len(certs) > 1
                                       THEN SubSeq(certs, 1, Len(certs) - 1)
                                       ELSE pre.cert_chain,
                        !.ca = certs[Len(certs)].ca,
                        !.private_key = NoKey]
        key_file == files[pre.private_key_file].data
        args == << with_private_key >>
    IN  /\ UNCHANGED <<files, csr, certchain, next_key>>
        /\ IF HasKeyOrCert(pre)
           THEN /\ last' = Call("load", s, args, "ValueError")
                /\ UNCHANGED secrets
           ELSE IF ~Exists(pre.cert_file)
           THEN /\ last' = Call("load", s, args, "FileNotFoundError")
                /\ UNCHANGED secrets
           ELSE IF Len(certs) = 0
           THEN /\ last' = Call("load", s, args, "ValueError")
                /\ UNCHANGED secrets
           ELSE IF ~with_private_key \/ ~Exists(pre.private_key_file)
           THEN /\ secrets' = [secrets EXCEPT ![s] = with_cert]
                /\ last' = Call("load", s, args, None)
           ELSE IF key_file.password # password
           THEN /\ secrets' = [secrets EXCEPT ![s] = with_cert]
                /\ last' = Call("load", s, args, "ValueError")
           ELSE /\ secrets' = [secrets EXCEPT ![s] =
                                  [with_cert EXCEPT
                                      !.private_key = key_file.pem]]
                /\ last' = Call("load", s, args, None)

\* The access-control tree while the Secrets are explored: one schema
\* without access rights.
TreeIdle ==
    /\ tree = [n \in Nodes |-> SchemaDataItemInit(n, 1, <<>>)]
    /\ authz = NoCall
    /\ requests = NoRequests

Init ==
    /\ TreeIdle
    /\ SecretsIdle
    /\ JwtIdle
    /\ MemberIdle

\* No call on a Secret is under way: the caller of the last one has its
\* result or its exception.
Ready == last = NoSecretCall

\* The call returns to its caller.
CallDone ==
    /\ last # NoSecretCall
    /\ last' = NoSecretCall
    /\ UNCHANGED <<secrets, files, csr, certchain, next_key>>

Next ==
    \/ \E s \in SecretIds, f \in FileIds :
           Ready /\ New(s, f) /\ UNCHANGED <<aclVars, jwtVars, memberVars>>
    \/ \E s \in SecretIds, r \in Requests,
          issuing_ca \in SecretIds \cup {NoSecret} :
           /\ Ready
           /\ Create(s, r.common_name, issuing_ca, r.ca)
           /\ UNCHANGED <<aclVars, jwtVars, memberVars>>
    \/ \E s \in SecretIds, r \in Requests :
           /\ Ready
           /\ CreateCsr(s, r.common_name, r.ca)
           /\ UNCHANGED <<aclVars, jwtVars, memberVars>>
    \/ \E s \in SecretIds :
           Ready /\ SignCsr(s) /\ UNCHANGED <<aclVars, jwtVars, memberVars>>
    \/ \E s \in SecretIds :
           Ready /\ AddSignedCert(s) /\ UNCHANGED <<aclVars, jwtVars, memberVars>>
    \/ \E s \in SecretIds, issuing_ca \in SecretIds :
           /\ Ready
           /\ GetCsrSignature(s, issuing_ca)
           /\ UNCHANGED <<aclVars, jwtVars, memberVars>>
    \/ \E s \in SecretIds :
           Ready /\ CreateSelfsignedCert(s) /\ UNCHANGED <<aclVars, jwtVars, memberVars>>
    \/ \E s \in SecretIds, password \in Passwords :
           Ready /\ Save(s, password) /\ UNCHANGED <<aclVars, jwtVars, memberVars>>
    \/ \E s \in SecretIds, with_private_key \in BOOLEAN,
          password \in Passwords :
           /\ Ready
           /\ Load(s, with_private_key, password)
           /\ UNCHANGED <<aclVars, jwtVars, memberVars>>
    \/ CallDone /\ UNCHANGED <<aclVars, jwtVars, memberVars>>

Spec == Init /\ [][Next]_vars

(***************************************************************************)
(*        Persistence of Secrets: save and load over a given disk          *)
(***************************************************************************)

\* A Secret of an earlier run, bound to the files of the model: a
\* self-signed root CA as create builds it.
RootSecret ==
    CreateSelfsignedCertOn(
        [SecretInit(CertFile(1), KeyFile(1)) EXCEPT
            !.common_name = "ca.byoda.net", !.ca = TRUE, !.private_key = 1],
        TRUE).secret

\* The Secret that results from create_csr followed by
\* get_csr_signature(csr, issuing_ca).
Issued(common_name, ca, key, issuing_ca) ==
    LET request == CreateCsrOn(SecretInit(CertFile(1), KeyFile(1)),
                               common_name, ca, key)
    IN  AddSignedCertOn(request.secret,
                        SignCsrOn(issuing_ca, request.csr).certchain)

\* A CA Secret as load leaves it: the ca flag follows the certificate.
AsLoaded(secret) == [secret EXCEPT !.ca = secret.cert.ca]

\* Intermediate CAs under the root, and a leaf under each of them.
AccountsCa == Issued("accounts-ca.byoda.net", TRUE, 2, RootSecret)

MembersCa == Issued("members-ca.byoda.net", TRUE, 3, AsLoaded(AccountsCa))

AccountSecret == Issued("pod.byoda.net", FALSE, 4, AsLoaded(AccountsCa))

MemberSecret == Issued("pod.byoda.net", FALSE, 4, AsLoaded(MembersCa))

\* The Secrets earlier runs may have left on disk.
StoredSecrets ==
    {RootSecret, AccountsCa, MembersCa, AccountSecret, MemberSecret}

\* What the certificate file and the private-key file may hold when the
\* process starts.
StoredCertFiles ==
    {Absent} \cup {File(CertchainAsBytes(x)) : x \in StoredSecrets}

StoredKeyFiles ==
    {Absent} \cup
    {File(EncryptedPrivateKey(x.private_key, password)) :
        x \in {RootSecret, MemberSecret}, password \in Passwords}

\* The process starts over a disk of earlier runs; its first Secret is
\* empty or one of theirs, its second is empty.
InitStore ==
    /\ TreeIdle
    /\ JwtIdle
    /\ MemberIdle
    /\ \E x \in StoredSecrets \cup {SecretInit(CertFile(1), KeyFile(1))} :
           secrets = [s \in SecretIds |->
                         IF s = 1 THEN x
                         ELSE SecretInit(CertFile(1), KeyFile(1))]
    /\ \E cert_file \in StoredCertFiles, key_file \in StoredKeyFiles :
           files = [n \in FileNames |->
                       IF n = CertFile(1) THEN cert_file
                       ELSE IF n = KeyFile(1) THEN key_file
                       ELSE Absent]
    /\ csr = Null
    /\ certchain = Null
    /\ next_key = 0
    /\ last = NoSecretCall

\* Secret.cert_file_exists: os.path.exists is evaluated and its value is
\* dropped; the method has no return statement and yields None.
CertFileExistsOn(secret) ==
    LET found == Exists(secret.cert_file)
    IN  None

\* Secret.private_key_file_exists, written the same way.
PrivateKeyFileExistsOn(secret) ==
    LET found == Exists(secret.private_key_file)
    IN  None

\* 'if secret.cert_file_exists():' -- the truth value of what a call
\* returned.
Truthy(value) == value = "True"

CertFileExists(s) ==
    /\ last' = [Call("cert_file_exists", s, <<>>, None) EXCEPT
                   !.result = << CertFileExistsOn(secrets[s]) >>]
    /\ UNCHANGED <<secrets, files, csr, certchain, next_key>>

PrivateKeyFileExists(s) ==
    /\ last' = [Call("private_key_file_exists", s, <<>>, None) EXCEPT
                   !.result = << PrivateKeyFileExistsOn(secrets[s]) >>]
    /\ UNCHANGED <<secrets, files, csr, certchain, next_key>>

NextStore ==
    \/ \E s \in SecretIds, f \in FileIds :
           Ready /\ New(s, f) /\ UNCHANGED <<aclVars, jwtVars, memberVars>>
    \/ \E s \in SecretIds :
           Ready /\ CertFileExists(s) /\ UNCHANGED <<aclVars, jwtVars, memberVars>>
    \/ \E s \in SecretIds :
           Ready /\ PrivateKeyFileExists(s) /\ UNCHANGED <<aclVars, jwtVars, memberVars>>
    \/ \E s \in SecretIds, password \in Passwords :
           Ready /\ Save(s, password) /\ UNCHANGED <<aclVars, jwtVars, memberVars>>
    \/ \E s \in SecretIds, with_private_key \in BOOLEAN,
          password \in Passwords :
           /\ Ready
           /\ Load(s, with_private_key, password)
           /\ UNCHANGED <<aclVars, jwtVars, memberVars>>
    \/ CallDone /\ UNCHANGED <<aclVars, jwtVars, memberVars>>

SpecStore == InitStore /\ [][NextStore]_vars

(***************************************************************************)
(*        Issuing: review_csr, sign_csr, add_signed_cert, validate         *)
(***************************************************************************)

\* The root CA after save and load into a new Secret: load restores
\* certificate, chain, key and ca flag, and is_root_cert keeps the value
\* of __init__.
LoadedRoot == [AsLoaded(RootSecret) EXCEPT !.is_root_cert = FALSE]

\* The Secrets asked to review and to sign: the root CA as created and as
\* loaded, the CAs below it, and a Secret that is no CA.
Signers ==
    {RootSecret, LoadedRoot, AsLoaded(AccountsCa), AsLoaded(MembersCa),
     AsLoaded(MemberSecret)}

\* The key of the Secret that asks for a certificate, and another key.
RequesterKey == 5

OtherKey == 6

\* The Secret that asks for a certificate, after create_csr.
Requester ==
    CreateCsrOn(SecretInit(CertFile(1), KeyFile(1)), "pod.byoda.net", FALSE,
                RequesterKey).secret

\* Subjects of the CSRs handed to review_csr: what get_cert_name builds
\* for four common names, a subject with one more attribute, and a
\* subject without common name.
ReviewedSubjects ==
    {GetCertName([common_name |-> cn]) :
        cn \in {"pod.byoda.net", "podbyoda.net", "pod.other.org",
                "byoda.net"}}
    \cup {[C |-> "SW", ST |-> "SW", L |-> "local", O |-> "memyselfandi",
           CN |-> "pod.byoda.net", OU |-> "unit"],
          [C |-> "SW", ST |-> "SW", L |-> "local", O |-> "memyselfandi"]}

\* The CSRs handed to review_csr and sign_csr.
CsrInputs ==
    [subject    : ReviewedSubjects,
     public_key : {RequesterKey},
     ca         : BOOLEAN,
     signed_by  : {RequesterKey, OtherKey},
     algorithm  : {"sha256WithRSAEncryption", "ecdsa-with-SHA256"},
     hash       : {"sha256", "sha1"}]

\* A self-signed root with the key and the name given.
RootOf(common_name, key) ==
    CreateSelfsignedCertOn(
        [SecretInit(CertFile(1), KeyFile(1)) EXCEPT
            !.common_name = common_name, !.ca = TRUE,
            !.private_key = key], TRUE).secret

\* The roots validate is called with: the root of the Secrets above, a
\* root of the same name with another key, and a root of another name.
Roots ==
    {RootSecret, RootOf("ca.byoda.net", OtherKey),
     RootOf("pod.other.org", OtherKey)}

InitIssue ==
    /\ TreeIdle
    /\ JwtIdle
    /\ MemberIdle
    /\ \E x \in Signers :
           secrets = [s \in SecretIds |-> IF s = 1 THEN x ELSE Requester]
    /\ files = [n \in FileNames |-> Absent]
    /\ csr \in CsrInputs
    /\ certchain = Null
    /\ next_key = 0
    /\ last = NoSecretCall

NextIssue ==
    \/ \E s \in SecretIds :
           Ready /\ ReviewCsr(s) /\ UNCHANGED <<aclVars, jwtVars, memberVars>>
    \/ \E s \in SecretIds :
           Ready /\ SignCsr(s) /\ UNCHANGED <<aclVars, jwtVars, memberVars>>
    \/ \E s \in SecretIds :
           Ready /\ AddSignedCert(s) /\ UNCHANGED <<aclVars, jwtVars, memberVars>>
    \/ \E s \in SecretIds, root_ca \in Roots :
           Ready /\ Validate(s, root_ca) /\ UNCHANGED <<aclVars, jwtVars, memberVars>>
    \/ CallDone /\ UNCHANGED <<aclVars, jwtVars, memberVars>>

SpecIssue == InitIssue /\ [][NextIssue]_vars

(***************************************************************************)
(*   Shared keys: create_shared_key, load_shared_key, encrypt, decrypt     *)
(***************************************************************************)

\* public_key.encrypt(shared_key, OAEP): the Fernet key, readable with the
\* private key of the public key only.
Wrapped(shared_key, public_key) ==
    [shared_key |-> shared_key, public_key |-> public_key]

\* The data handed to encrypt: bytes, and a str.
Plaintexts ==
    {[type |-> "bytes", text |-> "hello"],
     [type |-> "bytes", text |-> "world"],
     [type |-> "str", text |-> "hello"]}

\* The body of Secret.create_shared_key, 'key' being the key
\* Fernet.generate_key yields: shared_key is assigned first, then the
\* public key is read from the certificate of the target, then
\* protected_shared_key and fernet are assigned.
CreateSharedKeyOn(secret, target_secret, key) ==
    LET keyed == [secret EXCEPT !.shared_key = key]
    IN  IF target_secret.cert = Null
        THEN [secret |-> keyed, error |-> "AttributeError"]
        ELSE [secret |->
                 [keyed EXCEPT
                     !.protected_shared_key =
                         Wrapped(key, target_secret.cert.public_key),
                     !.fernet = key],
              error |-> None]

\* load_shared_key, had it taken the key out whatever private key the
\* Secret holds.
LoadSharedKeyOn_AnyKey(secret, protected_shared_key) ==
    LET loaded == [secret EXCEPT
                      !.protected_shared_key = protected_shared_key]
    IN  IF secret.private_key = NoKey
        THEN [secret |-> loaded, error |-> "AttributeError"]
        ELSE [secret |->
                 [loaded EXCEPT
                     !.shared_key = protected_shared_key.shared_key,
                     !.fernet = protected_shared_key.shared_key],
              error |-> None]

\* The body of Secret.load_shared_key: protected_shared_key is assigned
\* first, then it is decrypted with the private key (an AttributeError
\* without private key, a ValueError of the decryption with another
\* key), then shared_key and fernet are assigned.
LoadSharedKeyOn(secret, protected_shared_key) ==
    LET loaded == [secret EXCEPT
                      !.protected_shared_key = protected_shared_key]
    IN  IF secret.private_key = NoKey
        THEN [secret |-> loaded, error |-> "AttributeError"]
        ELSE IF protected_shared_key.public_key # secret.private_key
        THEN [secret |-> loaded, error |-> "ValueError"]
        ELSE [secret |->
                 [loaded EXCEPT
                     !.shared_key = protected_shared_key.shared_key,
                     !.fernet = protected_shared_key.shared_key],
              error |-> None]

\* encrypt, had it not asked for a shared key.
EncryptOn_NoKeyNeeded(secret, data) ==
    [result |-> << [key  |-> secret.fernet,
                    data |-> [type |-> "bytes", text |-> data.text]] >>,
     error  |-> None]

\* The body of Secret.encrypt: a KeyError without shared key; a str is
\* encoded to bytes; the ciphertext is made by self.fernet, which is an
\* attribute only after create_shared_key or load_shared_key set it.
EncryptOn(secret, data) ==
    IF secret.shared_key = NoSharedKey
    THEN [result |-> NoResult, error |-> "KeyError"]
    ELSE IF secret.fernet = NoSharedKey
    THEN [result |-> NoResult, error |-> "AttributeError"]
    ELSE [result |-> << [key  |-> secret.fernet,
                         data |-> [type |-> "bytes", text |-> data.text]] >>,
          error  |-> None]

\* The body of Secret.decrypt: a KeyError without shared key;
\* self.fernet gives the data back for a ciphertext made with its key
\* and raises InvalidToken for every other.
DecryptOn(secret, ciphertext) ==
    IF secret.shared_key = NoSharedKey
    THEN [result |-> NoResult, error |-> "KeyError"]
    ELSE IF secret.fernet = NoSharedKey
    THEN [result |-> NoResult, error |-> "AttributeError"]
    ELSE IF ciphertext.key # secret.fernet
    THEN [result |-> NoResult, error |-> "InvalidToken"]
    ELSE [result |-> << ciphertext.data >>, error |-> None]

\* Secret.create_shared_key(target_secret).
CreateSharedKey(s, target_secret) ==
    LET out == CreateSharedKeyOn(secrets[s], secrets[target_secret],
                                 FreshKey)
    IN  /\ Ready
        /\ CanGenerateKey
        /\ secrets' = [secrets EXCEPT ![s] = out.secret]
        /\ next_key' = next_key + 1
        /\ last' = Call("create_shared_key", s, << target_secret >>,
                        out.error)
        /\ UNCHANGED <<files, csr, certchain>>

\* Secret.load_shared_key(protected_shared_key), with the protected key
\* of the Secret 'source'.
LoadSharedKey(s, source) ==
    LET out == LoadSharedKeyOn(secrets[s],
                               secrets[source].protected_shared_key)
    IN  /\ Ready
        /\ secrets[source].protected_shared_key # Null
        /\ secrets' = [secrets EXCEPT ![s] = out.secret]
        /\ last' = Call("load_shared_key", s, << source >>, out.error)
        /\ UNCHANGED <<files, csr, certchain, next_key>>

\* Secret.encrypt(data).
Encrypt(s, data) ==
    LET out == EncryptOn(secrets[s], data)
    IN  /\ Ready
        /\ last' = [Call("encrypt", s, << data >>, out.error) EXCEPT
                       !.result = out.result]
        /\ UNCHANGED <<secrets, files, csr, certchain, next_key>>

\* Secret.decrypt(ciphertext), with the ciphertext encrypt just returned.
Decrypt(s) ==
    LET out == DecryptOn(secrets[s], last.result[1])
    IN  /\ last.op = "encrypt"
        /\ last.error = None
        /\ last' = [Call("decrypt", s, last.result, out.error) EXCEPT
                       !.result = out.result]
        /\ UNCHANGED <<secrets, files, csr, certchain, next_key>>

\* A Secret after load(with_private_key=False): the certificate without
\* the private key.
CertOnly(secret) == [AsLoaded(secret) EXCEPT !.private_key = NoKey]

InitShared ==
    /\ TreeIdle
    /\ JwtIdle
    /\ MemberIdle
    /\ \E x \in {RootSecret, CertOnly(RootSecret),
                  SecretInit(CertFile(1), KeyFile(1))},
          y \in {AccountSecret, CertOnly(AccountSecret)} :
           secrets = [s \in SecretIds |-> IF s = 1 THEN x ELSE y]
    /\ files = [n \in FileNames |-> Absent]
    /\ csr = Null
    /\ certchain = Null
    /\ next_key = 0
    /\ last = NoSecretCall

NextShared ==
    \/ \E s \in SecretIds, target_secret \in SecretIds :
           CreateSharedKey(s, target_secret) /\ UNCHANGED <<aclVars, jwtVars, memberVars>>
    \/ \E s \in SecretIds, source \in SecretIds :
           LoadSharedKey(s, source) /\ UNCHANGED <<aclVars, jwtVars, memberVars>>
    \/ \E s \in SecretIds, data \in Plaintexts :
           Encrypt(s, data) /\ UNCHANGED <<aclVars, jwtVars, memberVars>>
    \/ \E s \in SecretIds :
           Decrypt(s) /\ UNCHANGED <<aclVars, jwtVars, memberVars>>
    \/ CallDone /\ UNCHANGED <<aclVars, jwtVars, memberVars>>

SpecShared == InitShared /\ [][NextShared]_vars

(***************************************************************************)
(* Member._create_secret: the Secret of a membership is built, its CSR is  *)
(* signed by the issuing CA at hand or by the service over HTTP, and the   *)
(* Secret is saved.  Secret 1 is the issuing CA, Secret 2 the Secret the   *)
(* call builds.  Every call on a Secret and the HTTP call are a step.      *)
(***************************************************************************)

IssuingCa == 1

MemberSlot == 2

\* The issuing_ca handed in: the members CA, or a Secret that is no CA.
IssuingCas == {AsLoaded(MembersCa), AsLoaded(MemberSecret)}

\* The classes _create_secret is called with.
SecretClasses == {"MemberSecret", "MemberDataSecret", "MembersCaSecret"}

\* The common name the class gives its Secret: one under the network of
\* the issuing CA, and one of a membership in another network.
MemberCommonNames == {"pod.byoda.net", "pod.other.org"}

\* What the service answers to the POST of the CSR: 201 with the signed
\* certificate and its chain, 201 with a body without them, 200 with the
\* certificate and its chain, and an error without them.
Responses(request) ==
    LET signed == SignCsrOn(AsLoaded(MembersCa), request).certchain
    IN  {[status_code |-> 201, json |-> signed],
         [status_code |-> 201, json |-> Null],
         [status_code |-> 200, json |-> signed],
         [status_code |-> 400, json |-> Null]}

\* The check of the response, had every status been taken for success.
ResponseAccepted_AnyStatus(status_code) == TRUE

\* 'if resp.status_code != 201: raise RuntimeError'
ResponseAccepted(status_code) == status_code = 201

\* The call raised: the exception leaves _create_secret.
Raised(frame, error) == [frame EXCEPT !.pc = "raised", !.error = error]

\* _create_secret(secret_cls, issuing_ca) up to the branch on issuing_ca:
\* the member_id is checked, the Secret is built, and the two checks for
\* files of an earlier Secret are made.
MemberCreateSecret(secret_cls, issuing_ca, member_id, common_name) ==
    LET secret == SecretInit(CertFile(1), KeyFile(1))
        frame  == [pc          |-> "create_csr",
                   secret_cls  |-> secret_cls,
                   issuing_ca  |-> issuing_ca,
                   common_name |-> common_name,
                   reviewed    |-> FALSE,
                   certchain   |-> Null,
                   status_code |-> 0,
                   error       |-> None]
    IN  /\ member = NoMember
        /\ UNCHANGED <<files, csr, certchain, next_key, last>>
        /\ IF member_id = None
           THEN /\ member' = Raised(frame, "ValueError")
                /\ UNCHANGED secrets
           ELSE /\ secrets' = [secrets EXCEPT ![MemberSlot] = secret]
                /\ member' =
                      IF Truthy(CertFileExistsOn(secret))
                      THEN Raised(frame, "ValueError")
                      ELSE IF Truthy(PrivateKeyFileExistsOn(secret))
                      THEN Raised(frame, "ValueError")
                      ELSE IF /\ issuing_ca = NoSecret
                              /\ secret_cls \notin {"MemberSecret",
                                                    "MemberDataSecret"}
                      THEN Raised(frame, "ValueError")
                      ELSE frame

\* 'csr = secret.create_csr()', on both paths.
MemberCreateCsr ==
    /\ member.pc = "create_csr"
    /\ CreateCsr(MemberSlot, member.common_name, FALSE)
    /\ member' = IF last'.error # None THEN Raised(member, last'.error)
                 ELSE IF member.issuing_ca = NoSecret
                 THEN [member EXCEPT !.pc = "post"]
                 ELSE [member EXCEPT !.pc = "review_csr"]

\* 'issuing_ca.review_csr(csr, source=CsrSource.LOCAL)'
MemberReviewCsr ==
    /\ member.pc = "review_csr"
    /\ ReviewCsr(member.issuing_ca)
    /\ member' = IF last'.error # None THEN Raised(member, last'.error)
                 ELSE [member EXCEPT !.pc = "sign_csr", !.reviewed = TRUE]

\* 'certchain = issuing_ca.sign_csr(csr)'
MemberSignCsr ==
    /\ member.pc = "sign_csr"
    /\ SignCsr(member.issuing_ca)
    /\ member' = IF last'.error # None THEN Raised(member, last'.error)
                 ELSE [member EXCEPT !.pc = "from_signed_cert",
                                     !.certchain = certchain']

\* 'secret.from_signed_cert(certchain)': the Secret takes the signed
\* certificate and the chain.
MemberFromSignedCert ==
    /\ member.pc = "from_signed_cert"
    /\ secrets' = [secrets EXCEPT ![MemberSlot] =
                      AddSignedCertOn(secrets[MemberSlot], member.certchain)]
    /\ last' = Call("from_signed_cert", MemberSlot, <<>>, None)
    /\ member' = [member EXCEPT !.pc = "save"]
    /\ UNCHANGED <<files, csr, certchain, next_key>>

\* The POST of the CSR to the service and what follows the response: a
\* RuntimeError unless the status is 201, then
\* secret.from_string(cert_data['signed_cert'], certchain=...), a KeyError
\* when the body has no signed certificate.
MemberPost(resp) ==
    /\ member.pc = "post"
    /\ UNCHANGED <<files, csr, certchain, next_key>>
    /\ IF ~ResponseAccepted(resp.status_code)
       THEN /\ member' = Raised([member EXCEPT
                                    !.status_code = resp.status_code],
                                "RuntimeError")
            /\ UNCHANGED <<secrets, last>>
       ELSE IF resp.json = Null
       THEN /\ member' = Raised([member EXCEPT
                                    !.status_code = resp.status_code],
                                "KeyError")
            /\ UNCHANGED <<secrets, last>>
       ELSE /\ secrets' = [secrets EXCEPT ![MemberSlot] =
                              AddSignedCertOn(secrets[MemberSlot], resp.json)]
            /\ last' = Call("from_string", MemberSlot, <<>>, None)
            /\ member' = [member EXCEPT !.pc = "save",
                                        !.status_code = resp.status_code,
                                        !.certchain = resp.json]

\* 'secret.save(password=self.private_key_password)' and 'return secret'.
MemberSave(password) ==
    /\ member.pc = "save"
    /\ Save(MemberSlot, password)
    /\ member' = IF last'.error # None THEN Raised(member, last'.error)
                 ELSE [member EXCEPT !.pc = "returned"]

\* The membership is created over the disk of earlier runs.
InitMember ==
    /\ TreeIdle
    /\ JwtIdle
    /\ MemberIdle
    /\ \E x \in IssuingCas :
           secrets = [s \in SecretIds |->
                         IF s = IssuingCa THEN x
                         ELSE SecretInit(CertFile(1), KeyFile(1))]
    /\ \E cert_file \in {Absent, File(CertchainAsBytes(MemberSecret))},
          key_file \in {Absent,
                        File(EncryptedPrivateKey(MemberSecret.private_key,
                                                 "byoda"))} :
           files = [n \in FileNames |->
                       IF n = CertFile(1) THEN cert_file
                       ELSE IF n = KeyFile(1) THEN key_file
                       ELSE Absent]
    /\ csr = Null
    /\ certchain = Null
    /\ next_key = 0
    /\ last = NoSecretCall

NextMember ==
    \/ /\ MemberIdle
       /\ \E secret_cls \in SecretClasses,
             issuing_ca \in {NoSecret, IssuingCa},
             member_id \in {None, "m1"},
             common_name \in MemberCommonNames :
              MemberCreateSecret(secret_cls, issuing_ca, member_id,
                                 common_name)
       /\ UNCHANGED <<aclVars, jwtVars>>
    \/ MemberCreateCsr /\ UNCHANGED <<aclVars, jwtVars>>
    \/ MemberReviewCsr /\ UNCHANGED <<aclVars, jwtVars>>
    \/ MemberSignCsr /\ UNCHANGED <<aclVars, jwtVars>>
    \/ MemberFromSignedCert /\ UNCHANGED <<aclVars, jwtVars>>
    \/ /\ member.pc = "post"
       /\ \E resp \in Responses(csr) : MemberPost(resp)
       /\ UNCHANGED <<aclVars, jwtVars>>
    \/ \E password \in Passwords :
           MemberSave(password) /\ UNCHANGED <<aclVars, jwtVars>>

SpecMember == InitMember /\ [][NextMember]_vars

(***************************************************************************)
(*                      Token decoder (jwt.py)                             *)
(***************************************************************************)

\* The network_name JWT.decode is called with.
NetworkName == "byoda.net"

\* audience = f'urn: network-{network_name}', what py_jwt.decode is told
\* to expect.
ExpectedAudience == "urn: network-byoda.net"

\* The entries an 'aud' claim is made of.
AudienceStrings ==
    {"urn: network-byoda.net", "urn: network-notbyoda.net",
     "urn: network-other.org"}

\* The 'aud' claims of the tokens: one entry, or two.
Audiences ==
    {<< a >> : a \in AudienceStrings}
        \cup {<< "urn: network-byoda.net", "urn: network-other.org" >>}

\* str.endswith, on the audience strings and network names of the model.
EndsWith(str, suffix) ==
    \/ str = "urn: network-byoda.net" /\ suffix = "byoda.net"
    \/ str = "urn: network-notbyoda.net" /\ suffix \in {"byoda.net", "notbyoda.net"}
    \/ str = "urn: network-other.org" /\ suffix = "other.org"

\* data.get('iss') of a token without 'iss' claim.
NoIssuer == Null

\* An 'iss' claim: whether it starts with 'urn:', the prefix of what
\* follows, and the text after the prefix.
Issuer(urn, prefix, uuid) == [urn |-> urn, prefix |-> prefix, uuid |-> uuid]

\* The texts of the model that UUID() parses.
UuidTexts == {"u1", "u2"}

\* A UUID, and the int that is the id of a service.
Uuid(text) == [uuid |-> text]

IntId(n) == [int |-> n]

Issuers ==
    {NoIssuer,
     Issuer(TRUE, "member_id-", "u1"),
     Issuer(TRUE, "account_id-", "u1"),
     Issuer(FALSE, "member_id-", "u1"),
     Issuer(TRUE, "service_id-", "u1"),
     Issuer(TRUE, "member_id-", "not-a-uuid")}

\* byoda.datatypes.IdType, by the names of its members jwt.py, member.py
\* and bootstrap.py use.
IdTypes == {"ACCOUNT", "MEMBER", "SERVICE", "APP"}

\* IdType.value, as the pieces of the label it is put in: MEMBER.value is
\* 'members-', ACCOUNT.value is 'accounts'.
IdTypeValue(id_type) ==
    CASE id_type = "ACCOUNT" -> << "accounts" >>
      [] id_type = "MEMBER"  -> << "members", "-" >>
      [] id_type = "SERVICE" -> << "service", "-" >>
      [] id_type = "APP"     -> << "apps", "-" >>

\* IdType(value): the member with that value, None for the ValueError of
\* a value that no member has.
IdTypeOf(value) ==
    IF \E id_type \in IdTypes : IdTypeValue(id_type) = value
    THEN CHOOSE id_type \in IdTypes : IdTypeValue(id_type) = value
    ELSE None

\* service_id of a token without that claim, and of JWT.create called
\* with service_id None.
NoServiceId == -1

\* The service ids of the tokens; 0 is the one int that is not truthy.
TokenServiceIds == {0, 5}

\* str(n) and int(text) on the ints of the model; int('') and int of
\* other text raise ValueError.
IntText(n) == IF n = 0 THEN "0" ELSE "5"

IsIntText(text) == text \in {"0", "5"}

ParseInt(text) == IF text = "0" THEN 0 ELSE 5

\* str() of a scope id or an identifier.
IdText(id) == IF "uuid" \in DOMAIN id THEN id.uuid ELSE IntText(id.int)

\* data.get('scope') of a token without 'scope' claim.
NoScope == Null

\* A 'scope' claim after 'urn:' is stripped, by the three parts
\* split('.', maxsplit=2) yields; the middle part is kept in pieces, with
\* '-' a piece of its own.
Scope(hostname, subdomain, domain) ==
    [hostname |-> hostname, subdomain |-> subdomain, domain |-> domain]

\* JWT.generate_scope: the id, the value of the type followed by the
\* service id when that is truthy, and the network.
GenerateScope(scope_id, scope_type, service_id, network_name) ==
    Scope(IdText(scope_id),
          IdTypeValue(scope_type)
              \o (IF service_id \notin {NoServiceId, 0}
                  THEN << IntText(service_id) >>
                  ELSE << >>),
          network_name)

Scopes ==
    {NoScope}
    \cup {Scope("u1", subdomain, domain) :
             subdomain \in {<< "accounts" >>, << "members", "-", "5" >>,
                            << "members", "-" >>},
             domain \in {"byoda.net", "other.org"}}

\* The claims of a token.
Claims ==
    [iss : Issuers, aud : Audiences, scope : Scopes,
     service_id : TokenServiceIds \cup {NoServiceId}, expired : BOOLEAN]

\* An encoded token: its claims, the private key it was signed with, and
\* whether it still is what was signed.
Authorizations == [data : Claims, signer : KeyIds, intact : BOOLEAN]

\* The Secret handed to decode or fetched for the issuer, by the public
\* key of its certificate; NoSecret for None.
TrustedSigners == KeyIds \cup {NoSecret}

\* py_jwt.decode(authorization, key, leeway, audience, algorithms,
\* options): the signature is checked against the key unless
\* verify_signature is off, then expiry and audience unless they are not
\* verified either; the claims are what it returns.
PyJwtDecode(authorization, key, verify_signature, verify_claims) ==
    IF verify_signature
       /\ ~(authorization.intact /\ authorization.signer = key)
    THEN [error |-> "InvalidSignatureError", data |-> Null]
    ELSE IF verify_claims /\ authorization.data.expired
    THEN [error |-> "ExpiredSignatureError", data |-> Null]
    ELSE IF verify_claims
            /\ \A i \in 1..Len(authorization.data.aud) :
                   authorization.data.aud[i] # ExpectedAudience
    THEN [error |-> "InvalidAudienceError", data |-> Null]
    ELSE [error |-> None, data |-> authorization.data]

\* The first decode, had it set the flag whether or not it verified.
DecodeFirst_VerifiedAlways(authorization, secret, verify_claims) ==
    IF secret # NoSecret
    THEN [out      |-> PyJwtDecode(authorization, secret, TRUE, TRUE),
          verified |-> TRUE]
    ELSE [out      |-> PyJwtDecode(authorization, NoKey, FALSE, verify_claims),
          verified |-> TRUE]

\* The first decode of JWT.decode: against the certificate of the Secret
\* when one is given, without verification of the signature otherwise.
\* Whether py_jwt still checks expiry and audience with verify_signature
\* off depends on the version of the library: verify_claims.
DecodeFirst(authorization, secret, verify_claims) ==
    IF secret # NoSecret
    THEN [out      |-> PyJwtDecode(authorization, secret, TRUE, TRUE),
          verified |-> TRUE]
    ELSE [out      |-> PyJwtDecode(authorization, NoKey, FALSE, verify_claims),
          verified |-> FALSE]

\* The scope type and scope id parse_scope reads from hostname and
\* subdomain: IdType(...) of the value, then int(hostname) for a service
\* and UUID(hostname) for every other type.
ScopeOf(hostname, value) ==
    LET scope_type == IdTypeOf(value)
    IN  IF scope_type = None
        THEN [error |-> "ValueError", scope_type |-> None, scope_id |-> Null]
        ELSE IF scope_type = "SERVICE"
        THEN IF IsIntText(hostname)
             THEN [error |-> None, scope_type |-> scope_type,
                   scope_id |-> IntId(ParseInt(hostname))]
             ELSE [error |-> "ValueError", scope_type |-> None,
                   scope_id |-> Null]
        ELSE IF hostname \in UuidTexts
        THEN [error |-> None, scope_type |-> scope_type,
              scope_id |-> Uuid(hostname)]
        ELSE [error |-> "ValueError", scope_type |-> None, scope_id |-> Null]

\* JWT.parse_scope: the domain is compared with the network; a subdomain
\* with a hyphen is split at it, the part behind it read as an int and
\* compared with the service_id of the token.
ParseScope(scope, service_id, network_name) ==
    LET subdomain == scope.subdomain
        hyphens   == {i \in 1..Len(subdomain) : subdomain[i] = "-"}
        failed    == [error |-> "ValueError", scope_type |-> None,
                      scope_id |-> Null]
    IN  IF scope = NoScope
        THEN [error |-> "AttributeError", scope_type |-> None,
              scope_id |-> Null]
        ELSE IF scope.domain # network_name THEN failed
        ELSE IF hyphens = {} THEN ScopeOf(scope.hostname, subdomain)
        ELSE IF Cardinality(hyphens) # 1 THEN failed
        ELSE LET at      == CHOOSE i \in hyphens : TRUE
                 service == SubSeq(subdomain, at + 1, Len(subdomain))
             IN  IF Len(service) # 1 THEN failed
                 ELSE IF ~IsIntText(service[1]) THEN failed
                 ELSE IF ParseInt(service[1]) # service_id THEN failed
                 ELSE ScopeOf(scope.hostname,
                              Append(SubSeq(subdomain, 1, at - 1), "-"))

\* The checks of JWT.decode on the claims, parse_scope included: the
\* exception the first failing one raises, None when all pass.
ParseClaims(data, network_name) ==
    IF data.iss = NoIssuer THEN "ValueError"
    ELSE IF ~data.iss.urn THEN "ValueError"
    ELSE IF data.iss.prefix \notin {"member_id-", "account_id-"}
    THEN "ValueError"
    ELSE IF data.iss.uuid \notin UuidTexts THEN "ValueError"
    ELSE IF Len(data.aud) # 1 THEN "ValueError"
    ELSE IF ~EndsWith(data.aud[1], network_name) THEN "ValueError"
    ELSE ParseScope(data.scope, data.service_id, network_name).error

\* The attributes decode sets on the JWT from claims that passed.
DecodedClaims(data, network_name) ==
    LET scope == ParseScope(data.scope, data.service_id, network_name)
    IN  [issuer_type |-> IF data.iss.prefix = "member_id-"
                         THEN "MEMBER" ELSE "ACCOUNT",
         issuer_id   |-> Uuid(data.iss.uuid),
         audience    |-> data.aud,
         service_id  |-> data.service_id,
         scope_type  |-> scope.scope_type,
         scope_id    |-> scope.scope_id]

\* self.audience = [f'urn: network-{network_name}'] of JWT.__init__.
AudienceOf(network_name) ==
    IF network_name = "byoda.net" THEN << "urn: network-byoda.net" >>
    ELSE << "urn: network-other.org" >>

\* JWT.encode: the claims, signed with the private key of the Secret;
\* service_id is a claim unless it is None.  The token expires after
\* expiration_days, 365 by default.
Encode(issuer, audience, scope, service_id, secret) ==
    [data   |-> [iss        |-> issuer,
                 aud        |-> audience,
                 scope      |-> scope,
                 service_id |-> service_id,
                 expired    |-> FALSE],
     signer |-> secret,
     intact |-> TRUE]

\* JWT.create: the scope is generated, the issuer is 'account_id-' or
\* 'member_id-' followed by the identifier, every other id_type is a
\* ValueError; the JWT is encoded at the end.
CreateOn(identifier, id_type, secret, network_name, service_id, scope_type, scope_id) ==
    IF id_type \notin {"ACCOUNT", "MEMBER"}
    THEN [error |-> "ValueError", encoded |-> Null]
    ELSE [error   |-> None,
          encoded |->
              Encode(Issuer(TRUE,
                            IF id_type = "ACCOUNT"
                            THEN "account_id-" ELSE "member_id-",
                            IdText(identifier)),
                     AudienceOf(network_name),
                     GenerateScope(scope_id, scope_type, service_id,
                                   network_name),
                     service_id, secret)]

\* check_scope, had it compared the scope type only.
CheckScopeOn_TypeOnly(token, scope_type, scope_id) ==
    IF token.scope_type # scope_type THEN "ValueError" ELSE None

\* JWT.check_scope: a ValueError unless scope type and scope id of the
\* JWT are the ones given.
CheckScopeOn(token, scope_type, scope_id) ==
    IF token.scope_type # scope_type THEN "ValueError"
    ELSE IF token.scope_id # scope_id THEN "ValueError"
    ELSE None

\* The condition, had it never asked for the issuer's certificate.
NeedsRemoteCert_Never(secret, download_remote_cert) == FALSE

\* 'if not secret and download_remote_cert'
NeedsRemoteCert(secret, download_remote_cert) ==
    secret = NoSecret /\ download_remote_cert

\* The end of JWT._get_issuer_secret: without a secret the call raises
\* (the AttributeError of the log line that reads self.id_type, before the
\* ValueError it was written to raise).
GetIssuerSecret(fetched) ==
    IF fetched = NoSecret
    THEN [secret |-> NoSecret, error |-> "AttributeError"]
    ELSE [secret |-> fetched, error |-> None]

\* decode has not returned a JWT.
NoToken == Null

\* The frame of a JWT.decode call.
Frame(authorization, secret, download_remote_cert) ==
    [pc                   |-> "decode",
     authorization        |-> authorization,
     secret               |-> secret,
     download_remote_cert |-> download_remote_cert,
     data                 |-> Null,
     verified             |-> None,
     fetched              |-> NoSecret,
     trace                |-> <<>>,
     error                |-> None,
     token                |-> NoToken,
     issued               |-> Null,
     check                |-> Null]

\* The call ends with an exception after the step named.
Raise(frame, step, error) ==
    [frame EXCEPT !.pc = "rejected",
                  !.trace = Append(frame.trace, step),
                  !.error = error]

\* The call moves on after the step named.
Step(frame, step, pc) ==
    [frame EXCEPT !.pc = pc, !.trace = Append(frame.trace, step)]

\* JWT.decode(authorization, secret, network_name, download_remote_cert)
\* is called.
Decode(authorization, secret, download_remote_cert) ==
    /\ jwt.pc = "idle"
    /\ jwt' = Frame(authorization, secret, download_remote_cert)
    /\ UNCHANGED <<aclVars, secretVars, memberVars>>

\* The first py_jwt.decode.
FirstDecode(verify_claims) ==
    /\ jwt.pc = "decode"
    /\ LET first == DecodeFirst(jwt.authorization, jwt.secret, verify_claims)
           step  == IF jwt.secret # NoSecret
                    THEN "decode_verified"
                    ELSE "decode_unverified"
       IN  jwt' = IF first.out.error # None
                  THEN Raise(jwt, step, first.out.error)
                  ELSE [Step(jwt, step, "claims") EXCEPT
                           !.data = first.out.data,
                           !.verified = Str(first.verified)]
    /\ UNCHANGED <<aclVars, secretVars, memberVars>>

\* The checks on issuer, audience and scope.
CheckClaims ==
    /\ jwt.pc = "claims"
    /\ LET error == ParseClaims(jwt.data, NetworkName)
       IN  jwt' = IF error # None
                  THEN Raise(jwt, "parse_claims", error)
                  ELSE Step(jwt, "parse_claims",
                            IF NeedsRemoteCert(jwt.secret,
                                               jwt.download_remote_cert)
                            THEN "review_jwt"
                            ELSE "return")
    /\ UNCHANGED <<aclVars, secretVars, memberVars>>

\* await config.server.review_jwt(self): the server accepts the token for
\* a lookup of its issuer, or raises.
ReviewJwt(accepted) ==
    /\ jwt.pc = "review_jwt"
    /\ jwt' = IF accepted
              THEN Step(jwt, "review_jwt", "get_jwt_secret")
              ELSE Raise(jwt, "review_jwt", "ValueError")
    /\ UNCHANGED <<aclVars, secretVars, memberVars>>

\* await config.server.get_jwt_secret(self), and the rest of
\* _get_issuer_secret.
GetJwtSecret(fetched) ==
    /\ jwt.pc = "get_jwt_secret"
    /\ LET out == GetIssuerSecret(fetched)
       IN  jwt' = IF out.error # None
                  THEN Raise(jwt, "get_jwt_secret", out.error)
                  ELSE [Step(jwt, "get_jwt_secret", "verify") EXCEPT
                           !.fetched = out.secret]
    /\ UNCHANGED <<aclVars, secretVars, memberVars>>

\* The second py_jwt.decode, against the certificate of the fetched Secret.
VerifySignature ==
    /\ jwt.pc = "verify"
    /\ LET out == PyJwtDecode(jwt.authorization, jwt.fetched, TRUE, TRUE)
       IN  jwt' = IF out.error # None
                  THEN Raise(jwt, "verify_signature", out.error)
                  ELSE [Step(jwt, "verify_signature", "return") EXCEPT
                           !.verified = Str(TRUE)]
    /\ UNCHANGED <<aclVars, secretVars, memberVars>>

\* jwt.secret = secret; return jwt
Return ==
    /\ jwt.pc = "return"
    /\ jwt' = [jwt EXCEPT
                  !.pc = "returned",
                  !.token = [verified |-> jwt.verified,
                             secret   |-> IF jwt.secret # NoSecret
                                          THEN jwt.secret
                                          ELSE jwt.fetched,
                             claims   |-> DecodedClaims(jwt.data,
                                                        NetworkName)]]
    /\ UNCHANGED <<aclVars, secretVars, memberVars>>

\* The caller has the JWT or the exception; the next header may come in.
DecodeDone ==
    /\ jwt.pc \in {"returned", "rejected"}
    /\ jwt' = NoDecode
    /\ UNCHANGED <<aclVars, secretVars, memberVars>>

\* The identifiers and scope ids JWT.create is called with: UUIDs, and
\* the int that is the id of a service.
Identifiers == {Uuid(text) : text \in UuidTexts}

ScopeIds == Identifiers \cup {IntId(5)}

\* What JWT.create is called with; the scope id is an int for a service
\* and a UUID for every other scope type.
CreateInputs ==
    {inputs \in [identifier : Identifiers,
                 id_type    : {"ACCOUNT", "MEMBER", "SERVICE"},
                 secret     : KeyIds,
                 service_id : TokenServiceIds \cup {NoServiceId},
                 scope_type : IdTypes,
                 scope_id   : ScopeIds] :
        inputs.scope_type = "SERVICE" <=> inputs.scope_id \notin Identifiers}

\* JWT.create(identifier, id_type, secret, network_name, service_id,
\* scope_type, scope_id).
CreateJwt(inputs) ==
    /\ jwt.pc = "idle"
    /\ LET out == CreateOn(inputs.identifier, inputs.id_type, inputs.secret,
                           NetworkName, inputs.service_id,
                           inputs.scope_type, inputs.scope_id)
           frame == [Frame(out.encoded, inputs.secret, FALSE) EXCEPT
                        !.issued = inputs]
       IN  jwt' = IF out.error # None
                  THEN Raise(frame, "create", out.error)
                  ELSE [frame EXCEPT !.pc = "created"]
    /\ UNCHANGED <<aclVars, secretVars, memberVars>>

\* JWT.decode(jwt.encoded, secret, network_name, download_remote_cert)
\* with the JWT just created and the Secret it was created with.
DecodeCreated(download_remote_cert) ==
    /\ jwt.pc = "created"
    /\ jwt' = [jwt EXCEPT !.pc = "decode",
                          !.download_remote_cert = download_remote_cert]
    /\ UNCHANGED <<aclVars, secretVars, memberVars>>

\* jwt.check_scope(scope_type, scope_id) on the JWT decode returned.
CheckScope(scope_type, scope_id) ==
    /\ jwt.pc = "returned"
    /\ jwt' = [jwt EXCEPT !.check =
                  [scope_type |-> scope_type,
                   scope_id   |-> scope_id,
                   error      |-> CheckScopeOn(jwt.token.claims, scope_type,
                                               scope_id)]]
    /\ UNCHANGED <<aclVars, secretVars, memberVars>>

InitJWT ==
    /\ TreeIdle
    /\ SecretsIdle
    /\ JwtIdle
    /\ MemberIdle

NextJWT ==
    \/ /\ JwtIdle
       /\ \E authorization \in Authorizations, secret \in TrustedSigners,
             download_remote_cert \in BOOLEAN :
              Decode(authorization, secret, download_remote_cert)
    \/ \E verify_claims \in BOOLEAN : FirstDecode(verify_claims)
    \/ CheckClaims
    \/ \E accepted \in BOOLEAN : ReviewJwt(accepted)
    \/ \E fetched \in TrustedSigners : GetJwtSecret(fetched)
    \/ VerifySignature
    \/ Return
    \/ DecodeDone

SpecJWT == InitJWT /\ [][NextJWT]_vars

\* Tokens that are created, decoded with the Secret that signed them,
\* and checked for their scope.
NextToken ==
    \/ /\ JwtIdle
       /\ \E inputs \in CreateInputs : CreateJwt(inputs)
    \/ \E download_remote_cert \in BOOLEAN :
           DecodeCreated(download_remote_cert)
    \/ \E verify_claims \in BOOLEAN : FirstDecode(verify_claims)
    \/ CheckClaims
    \/ Return
    \/ \E scope_type \in IdTypes, scope_id \in ScopeIds :
           CheckScope(scope_type, scope_id)
    \/ DecodeDone

SpecToken == InitJWT /\ [][NextToken]_vars

(***************************************************************************)
(*               Properties of JWT.decode (under SpecJWT)                  *)
(***************************************************************************)

\* The signature of the token verifies against the certificate of the
\* Secret named.
SignedWith(authorization, secret) ==
    /\ secret # NoSecret
    /\ authorization.intact
    /\ authorization.signer = secret

\* C2: a JWT that decode returns has verified = True only if the signature
\* of the token verifies against the certificate of the Secret the JWT
\* carries, which is the Secret decode was given or the one fetched for
\* the issuer; without a Secret and with download_remote_cert off the JWT
\* returned has verified = False.
C2_VerifiedOnlyIfChecked ==
    jwt.pc = "returned" =>
        /\ jwt.token.verified \in {"True", "False"}
        /\ jwt.token.verified = "True" =>
               /\ jwt.token.secret \in {jwt.secret, jwt.fetched}
               /\ SignedWith(jwt.authorization, jwt.token.secret)
        /\ (jwt.secret = NoSecret /\ ~jwt.download_remote_cert) =>
               jwt.token.verified = "False"

\* C2: decode has returned an unverified JWT, for a call without Secret
\* and with download_remote_cert off.
C2_Witness ==
    /\ jwt.pc = "returned"
    /\ jwt.secret = NoSecret
    /\ ~jwt.download_remote_cert
    /\ jwt.token.verified = "False"

\* The steps of a decode without Secret and with download_remote_cert on.
FetchPath ==
    << "decode_unverified", "parse_claims", "review_jwt", "get_jwt_secret",
       "verify_signature" >>

IsPrefix(a, b) ==
    /\ Len(a) <= Len(b)
    /\ a = SubSeq(b, 1, Len(a))

\* C3: a decode without Secret and with download_remote_cert on takes its
\* steps in the order decode without verification, checks of the claims,
\* review_jwt, get_jwt_secret, verification of the signature, none of them
\* twice; it returns a JWT only after all five, the signature verifying
\* against the fetched certificate; when no secret is fetched or the
\* verification fails it ends with an exception and without a JWT.
C3_FetchThenVerifyThenReturn ==
    (jwt.pc # "idle" /\ jwt.secret = NoSecret /\ jwt.download_remote_cert) =>
        /\ IsPrefix(jwt.trace, FetchPath)
        /\ jwt.pc = "returned" =>
               /\ jwt.trace = FetchPath
               /\ SignedWith(jwt.authorization, jwt.fetched)
               /\ jwt.token.verified = "True"
               /\ jwt.token.secret = jwt.fetched
        /\ jwt.pc = "rejected" =>
               /\ jwt.token = NoToken
               /\ jwt.error # None
        /\ (Len(jwt.trace) >= 4 /\ jwt.fetched = NoSecret) =>
               jwt.pc = "rejected"
        /\ (Len(jwt.trace) = 5
                /\ ~SignedWith(jwt.authorization, jwt.fetched)) =>
               jwt.pc = "rejected"

\* C3: decode has returned a JWT verified against the certificate it
\* fetched for the issuer.
C3_Witness ==
    /\ jwt.pc = "returned"
    /\ jwt.secret = NoSecret
    /\ jwt.download_remote_cert
    /\ jwt.trace = FetchPath
    /\ jwt.token.verified = "True"

\* A decode that fetched no secret, or a certificate the signature does
\* not verify against, has ended with an exception.
C3_WitnessRejected ==
    /\ jwt.pc = "rejected"
    /\ jwt.secret = NoSecret
    /\ jwt.download_remote_cert
    /\ Len(jwt.trace) >= 4

(***************************************************************************)
(*                  Properties of Secret (under Spec)                      *)
(***************************************************************************)

\* Secret s holds a private key or a certificate.
Populated(s) ==
    \/ secrets[s].private_key # NoKey
    \/ secrets[s].cert # Null

\* Secret s holds a private key and no certificate.
KeyOnly(s) ==
    /\ secrets[s].private_key # NoKey
    /\ secrets[s].cert = Null

\* A self-signed certificate: issued to itself and signed with its own key.
IsRootCert(cert) ==
    /\ cert.issuer = cert.subject
    /\ cert.signed_by = cert.public_key

\* Whether a sequence of certificates holds a self-signed one.
HoldsRootCert(chain) == \E i \in 1..Len(chain) : IsRootCert(chain[i])

\* C7: no Secret's cert_chain and no CertChain returned by sign_csr holds
\* the self-signed root certificate.
C7_ChainNeverHoldsRoot ==
    /\ \A s \in SecretIds : ~HoldsRootCert(secrets[s].cert_chain)
    /\ certchain # Null => ~HoldsRootCert(certchain.cert_chain)

\* C8, as stated: no Secret ever holds a private key without a
\* certificate.
C8_EmptyOrPopulated == \A s \in SecretIds : ~KeyOnly(s)

\* C8, amended: a Secret comes to hold a private key without a certificate
\* only through a create_csr that succeeded or through a create with an
\* issuing CA, which ends in a ValueError after the key was generated; no
\* other call takes a Secret into that state, and a certificate once held
\* is never dropped by a call on the same object.
C8_KeyOnlyOnlyFromCsr ==
    [][\A s \in SecretIds :
          /\ (~KeyOnly(s) /\ secrets'[s].private_key # NoKey
                          /\ secrets'[s].cert = Null)
             => /\ last'.target = s
                /\ \/ last'.op = "create_csr" /\ last'.error = None
                   \/ /\ last'.op = "create"
                      /\ last'.args = << TRUE >>
                      /\ last'.error = "ValueError"
          /\ (secrets[s].cert # Null /\ secrets'[s].cert = Null)
             => last'.op = "__init__" /\ last'.target = s]_vars

\* C8: create_csr has just left a Secret with a key and no certificate.
C8_Witness ==
    /\ last.op = "create_csr"
    /\ last.error = None
    /\ KeyOnly(last.target)

\* The calls that set a Secret's key or certificate.
GuardedSetters == {"create", "create_csr", "load"}

UnguardedSetters == {"add_signed_cert", "get_csr_signature"}

\* C9, as stated: every call that sets key or certificate fails on a Secret
\* that holds a key or a certificate, and leaves the Secret as it was.
C9_AllSettersFail ==
    [][(/\ last'.op \in GuardedSetters \cup UnguardedSetters
        /\ Populated(last'.target))
       => /\ last'.error # None
          /\ secrets' = secrets]_vars

\* C9, amended: create, create_csr and load fail with a ValueError on a
\* Secret that holds a key or a certificate and leave every Secret as it
\* was; add_signed_cert and get_csr_signature have no such guard: when the
\* CA signs, they return normally on a populated Secret, keep its private
\* key and replace its certificate and chain.
C9_GuardedSettersFail ==
    [][/\ (/\ last'.op \in GuardedSetters
           /\ Populated(last'.target))
          => /\ last'.error = "ValueError"
             /\ secrets' = secrets
             /\ csr' = csr
             /\ next_key' = next_key
       /\ (/\ last'.op \in UnguardedSetters
           /\ last'.error = None)
          => /\ Populated(last'.target)
             /\ secrets'[last'.target].private_key
                    = secrets[last'.target].private_key
             /\ secrets'[last'.target].cert # Null
             /\ \A s \in SecretIds \ {last'.target} :
                    secrets'[s] = secrets[s]]_vars

\* C9: load has just been refused on a Secret that holds key and
\* certificate.
C9_Witness ==
    /\ last.op = "load"
    /\ last.error = "ValueError"
    /\ secrets[last.target].private_key # NoKey
    /\ secrets[last.target].cert # Null

\* C10: create_csr on a Secret that holds a key or a certificate ends in a
\* ValueError, generates no key and leaves the Secret, its private key
\* included, and the CSR of the first call as they were; on an empty Secret
\* it returns the CSR of a newly generated key.
C10_CreateCsrOneShot ==
    [][last'.op = "create_csr"
       => IF Populated(last'.target)
          THEN /\ last'.error = "ValueError"
               /\ secrets' = secrets
               /\ csr' = csr
               /\ next_key' = next_key
          ELSE /\ last'.error = None
               /\ next_key' = next_key + 1
               /\ secrets'[last'.target].private_key = next_key'
               /\ csr'.public_key = next_key']_vars

\* C10: a second create_csr on the same Secret has just failed, and the
\* Secret still holds the key of the request the first call returned.
C10_Witness ==
    /\ last.op = "create_csr"
    /\ last.error = "ValueError"
    /\ KeyOnly(last.target)
    /\ csr # Null
    /\ csr.public_key = secrets[last.target].private_key

(***************************************************************************)
(*             Properties of save and load (under SpecStore)               *)
(***************************************************************************)

\* C11: a save on a Secret whose certificate file or private-key file
\* exists ends in a ValueError, and leaves every file and every Secret as
\* it was.
C11_SaveNeverOverwrites ==
    [][(/\ last'.op = "save"
        /\ \/ Exists(secrets[last'.target].cert_file)
           \/ Exists(secrets[last'.target].private_key_file))
       => /\ last'.error = "ValueError"
          /\ files' = files
          /\ secrets' = secrets]_vars

\* C11: save has just been refused on a Secret with a certificate whose
\* private-key file exists and whose certificate file does not; no
\* certificate file was written.
C11_Witness ==
    /\ last.op = "save"
    /\ last.error = "ValueError"
    /\ secrets[last.target].cert # Null
    /\ ~Exists(secrets[last.target].cert_file)
    /\ Exists(secrets[last.target].private_key_file)

\* C12: a load fails when the certificate file is absent, fails when the
\* private key was asked for and the private-key file is absent, and never
\* returns normally without the private key that was asked for.
C12_LoadFailsWhenFileAbsent ==
    last.op = "load" =>
        /\ ~Exists(secrets[last.target].cert_file) => last.error # None
        /\ (/\ last.args = << TRUE >>
            /\ ~Exists(secrets[last.target].private_key_file))
           => last.error # None
        /\ (last.args = << TRUE >> /\ last.error = None)
           => secrets[last.target].private_key # NoKey

\* Secret s holds what the certificate file of Secret t was written from.
SavedFrom(s, t) ==
    /\ s # t
    /\ secrets[s].cert # Null
    /\ files[secrets[t].cert_file] = File(CertchainAsBytes(secrets[s]))

\* The private-key file of Secret t holds the key of Secret s.
KeySavedFrom(s, t) ==
    /\ secrets[s].private_key # NoKey
    /\ \E password \in Passwords :
           files[secrets[t].private_key_file]
               = File(EncryptedPrivateKey(secrets[s].private_key, password))

\* C17: after a load that returned normally, the Secret holds the
\* certificate and, in the same order, the chain of the Secret the
\* certificate file was saved from; when the private key was asked for and
\* the key file holds the key of that Secret, it holds that key as well.
C17_SaveLoadRoundTrip ==
    (last.op = "load" /\ last.error = None) =>
        \A s \in SecretIds :
            SavedFrom(s, last.target) =>
                /\ secrets[last.target].cert = secrets[s].cert
                /\ secrets[last.target].cert_chain = secrets[s].cert_chain
                /\ (last.args = << TRUE >> /\ KeySavedFrom(s, last.target))
                   => secrets[last.target].private_key
                          = secrets[s].private_key

\* C17: a Secret with key and a chain of two certificates has been loaded
\* from the files another Secret was saved to.
C17_Witness ==
    /\ last.op = "load"
    /\ last.error = None
    /\ last.args = << TRUE >>
    /\ \E s \in SecretIds :
           /\ SavedFrom(s, last.target)
           /\ KeySavedFrom(s, last.target)
           /\ Len(secrets[s].cert_chain) = 2
           /\ secrets[last.target].private_key # NoKey


(***************************************************************************)
(*                       Properties of issuing                             *)
(***************************************************************************)

\* C13: review_csr and sign_csr on a Secret whose ca flag is false both
\* end in a ValueError, return nothing, issue no CertChain and leave every
\* Secret as it was.
C13_OnlyCaReviewsAndSigns ==
    [][(/\ last'.op \in {"review_csr", "sign_csr"}
        /\ last.op = None
        /\ ~secrets[last'.target].ca)
       => (/\ last'.error = "ValueError"
           /\ last'.result = NoResult
           /\ certchain' = certchain
           /\ secrets' = secrets)]_vars

\* sign_csr was refused to a Secret that is no CA and holds both a
\* certificate and a key.
C13_Witness ==
    /\ last.op = "sign_csr"
    /\ last.error = "ValueError"
    /\ ~secrets[last.target].ca
    /\ secrets[last.target].cert # Null
    /\ secrets[last.target].private_key # NoKey
    /\ certchain = Null

\* A CSR review_csr is to accept: signed with its own key, SHA-256 with
\* RSA, a subject of C, ST, L, O and CN only, and a common name under the
\* network.
Acceptable(request) ==
    /\ request.signed_by = request.public_key
    /\ request.algorithm = "sha256WithRSAEncryption"
    /\ request.hash = "sha256"
    /\ DOMAIN request.subject = {"C", "ST", "L", "O", "CN"}
    /\ request.subject.CN = "pod.byoda.net"

\* C14: review_csr on a CA returns the common name without the
\* '.byoda.net' suffix for an acceptable CSR, and fails, returning
\* nothing, for every other CSR.
C14_ReviewCsr ==
    (last.op = "review_csr" /\ secrets[last.target].ca)
    => IF Acceptable(csr)
       THEN last.error = None /\ last.result = << "pod" >>
       ELSE last.error = "ValueError" /\ last.result = NoResult

\* A CA reviewed an acceptable CSR and returned 'pod'.
C14_Witness ==
    /\ last.op = "review_csr"
    /\ secrets[last.target].ca
    /\ Acceptable(csr)
    /\ last.result = << "pod" >>

\* C15: the chain sign_csr returns is the chain of the signing CA,
\* followed by the certificate of the CA if and only if that certificate
\* is not the self-signed root; the CA keeps its own chain.
C15_ChainOfSigner ==
    (last.op = "sign_csr" /\ last.error = None)
    => LET signer == secrets[last.target]
       IN  certchain.cert_chain =
               IF signer.cert.issuer = signer.cert.subject
               THEN signer.cert_chain
               ELSE Append(signer.cert_chain, signer.cert)

WellFormedIssuerAndScope(data) ==
    /\ data.iss # NoIssuer
    /\ data.iss.urn
    /\ data.iss.prefix \in {"account_id-", "member_id-"}
    /\ data.iss.uuid \in UuidTexts
    /\ data.scope # NoScope
    /\ data.scope.domain = NetworkName
    /\ \A i \in 1..Len(data.scope.subdomain) :
           data.scope.subdomain[i] = "-"
           => /\ data.service_id # NoServiceId
              /\ i < Len(data.scope.subdomain)
              /\ data.scope.subdomain[i + 1] = IntText(data.service_id)

\* C20: with or without a trusted signer, decode returns a JWT only for
\* claims with an issuer 'urn:' + 'account_id-' or 'member_id-' + UUID,
\* the network audience as only audience, a scope under the network, and
\* a service id in a hyphenated scope type that equals the service_id
\* claim.
C20_StructuralChecks ==
    jwt.pc = "returned"
    => /\ WellFormedIssuerAndScope(jwt.authorization.data)
       /\ jwt.authorization.data.aud = << ExpectedAudience >>


\* The JWT decode returned is verified and carries what create was given.
RoundTrip ==
    /\ jwt.pc = "returned"
    /\ jwt.token.verified = Str(TRUE)
    /\ jwt.token.claims.scope_type = jwt.issued.scope_type
    /\ jwt.token.claims.scope_id = jwt.issued.scope_id
    /\ jwt.token.claims.issuer_id = jwt.issued.identifier
    /\ jwt.token.claims.issuer_type = jwt.issued.id_type
    /\ jwt.token.claims.audience = AudienceOf(NetworkName)
    /\ jwt.token.claims.service_id = jwt.issued.service_id

\* C18: a JWT that create returned, decoded with the Secret that signed
\* it, ends as a verified JWT with scope type, scope id, issuer, audience
\* and service id as given to create.
C18_RoundTrip ==
    (jwt.pc \in {"returned", "rejected"} /\ jwt.trace[1] # "create")
    => RoundTrip

\* C19: check_scope on a JWT created for a member passes for the type
\* MEMBER with the scope id of the JWT, and for nothing else.
C19_CheckScope ==
    (/\ jwt.pc = "returned"
     /\ jwt.issued.scope_type = "MEMBER"
     /\ jwt.check # Null)
    => (jwt.check.error = None
        <=> /\ jwt.check.scope_type = "MEMBER"
            /\ jwt.check.scope_id = jwt.issued.scope_id)

\* check_scope refused a JWT created for a member the scope of another
\* member.
C19_Witness ==
    /\ jwt.pc = "returned"
    /\ jwt.issued.scope_type = "MEMBER"
    /\ jwt.check # Null
    /\ jwt.check.scope_type = "MEMBER"
    /\ jwt.check.scope_id # jwt.issued.scope_id
    /\ jwt.check.error = "ValueError"


(***************************************************************************)
(*                      Properties of shared keys                          *)
(***************************************************************************)

\* protected_shared_key is the wrapped form of shared_key, and fernet
\* works with shared_key.
SharedKeyConsistent(secret) ==
    /\ secret.fernet = secret.shared_key
    /\ IF secret.shared_key = NoSharedKey
       THEN secret.protected_shared_key = Null
       ELSE /\ secret.protected_shared_key # Null
            /\ secret.protected_shared_key.shared_key = secret.shared_key

\* C21: load_shared_key of the protected key another Secret made with
\* create_shared_key yields the shared key of that Secret when the
\* private key is the one of the certificate the key was protected
\* with, and fails without handing out a key with every other private
\* key; what a Secret encrypts, a Secret with the identical shared key
\* decrypts to the bytes of the plaintext.
C21_SharedKeyRoundTrip ==
    [][/\ (last'.op = "load_shared_key" /\ last.op = None)
          => LET s         == last'.target
                 source    == secrets[last'.args[1]]
                 protected == source.protected_shared_key
             IN  IF /\ secrets[s].private_key # NoKey
                    /\ secrets[s].private_key = protected.public_key
                 THEN /\ last'.error = None
                      /\ SharedKeyConsistent(source)
                         => secrets'[s].shared_key = source.shared_key
                 ELSE /\ last'.error # None
                      /\ secrets'[s].shared_key = secrets[s].shared_key
                      /\ secrets'[s].fernet = secrets[s].fernet
       /\ (last'.op = "decrypt" /\ last.op = "encrypt")
          => (secrets[last.target].shared_key
                  = secrets[last'.target].shared_key
              => /\ last'.error = None
                 /\ last'.result =
                        << [type |-> "bytes", text |-> last.args[1].text] >>)
      ]_vars

\* The target of create_shared_key loaded the key and decrypted what the
\* creator encrypted.
C21_Witness ==
    /\ last.op = "decrypt"
    /\ last.error = None
    /\ last.args[1].key = secrets[last.target].shared_key
    /\ \E s \in SecretIds \ {last.target} :
          /\ secrets[s].shared_key = secrets[last.target].shared_key
          /\ secrets[s].protected_shared_key.public_key
                 = secrets[last.target].private_key

\* C22: load_shared_key on a Secret without private key fails and leaves
\* shared_key and fernet as they were; a Secret without shared key gets
\* a KeyError from encrypt and from decrypt.
C22_NoPrivateKeyNoSharedKey ==
    [][/\ (last'.op = "load_shared_key" /\ last.op = None
           /\ secrets[last'.target].private_key = NoKey)
          => /\ last'.error = "AttributeError"
             /\ secrets'[last'.target].shared_key
                    = secrets[last'.target].shared_key
             /\ secrets'[last'.target].fernet
                    = secrets[last'.target].fernet
       /\ (last'.op \in {"encrypt", "decrypt"}
           /\ secrets[last'.target].shared_key = NoSharedKey)
          => /\ last'.error = "KeyError"
             /\ last'.result = NoResult
      ]_vars

\* A Secret without private key was refused a protected key, and its
\* encrypt was refused after that.
C22_Witness ==
    /\ last.op = "encrypt"
    /\ last.error = "KeyError"
    /\ secrets[last.target].private_key = NoKey
    /\ secrets[last.target].cert # Null
    /\ secrets[last.target].protected_shared_key # Null

\* C29: whatever create_shared_key and load_shared_key calls were made,
\* failed ones included, protected_shared_key of every Secret is the
\* wrapped form of its shared_key and fernet works with that key.
C29_SharedKeyConsistent ==
    \A s \in SecretIds : SharedKeyConsistent(secrets[s])


(***************************************************************************)
(*              Further properties of the access-control tree              *)
(***************************************************************************)

\* The orders a sequence can be put in.
Reorderings(seq) ==
    {[i \in 1..Len(seq) |-> seq[p[i]]] : p \in Permutations(1..Len(seq))}

\* The access rights of a node with the entity types in another order and
\* the rights of every entity type in another order.
ReorderedRights(access_rights) ==
    UNION {{[i \in 1..Len(groups) |->
                [entity |-> groups[i].entity, rights |-> rights[i]]] :
             rights \in {r \in [1..Len(groups) ->
                                  UNION {Reorderings(groups[j].rights) :
                                            j \in 1..Len(groups)}] :
                            \A i \in 1..Len(groups) :
                                r[i] \in Reorderings(groups[i].rights)}} :
           groups \in Reorderings(access_rights)}

\* C24: the own determination of the node asked is the same for every
\* order of its access rights.
C24_OrderOfRulesIrrelevant ==
    authz # NoCall
    => \A rights \in ReorderedRights(tree[authz.node].access_rights) :
           ItemAuthorizeAccess(
               [tree[authz.node] EXCEPT !.access_rights = rights],
               authz.operation, authz.auth, authz.service_id, authz.depth)
           = authz.own

\* A node was allowed by an access right that is not the first one.
C24_Witness ==
    /\ authz # NoCall
    /\ authz.own = Allow
    /\ LET flat == FlattenRights(tree[authz.node].access_rights)
       IN  /\ Len(flat) > 1
           /\ ~AccessRightAuthorize(flat[1].entity, flat[1].right,
                                    authz.auth, authz.service_id,
                                    authz.operation, authz.depth)

\* C28: the result of authorize_access equals the own determination of
\* the node asked, and a child of that node returns False exactly when
\* that own determination is False.
C28_ResultIsOwnDetermination ==
    authz # NoCall
    => /\ authz.result = authz.own
       /\ LET kids == Children(tree[authz.node])
          IN  \A i \in 1..Len(kids) :
                  AuthorizeAccess(tree, kids[i], authz.operation, authz.auth,
                                  authz.service_id, authz.depth).result = Deny
                  <=> authz.own = Deny

\* An object with access rights of its own was asked, its fields were
\* asked in turn, and none of them returned False.
C28_Witness ==
    /\ authz # NoCall
    /\ tree[authz.node].type = "object"
    /\ authz.own = Allow
    /\ Len(authz.visited) > 2
    /\ \E c \in {"name", "tags"} :
          /\ tree[c].access_rights # <<>>
          /\ ItemAuthorizeAccess(tree[c], authz.operation, authz.auth,
                                 authz.service_id, authz.depth)
                 = Indeterminate


\* C25: no step of a request changes the tree, and a request answered
\* while others were in progress has the answer it gets when it is the
\* only one.
C25_ReadOnlyTree ==
    [][/\ tree' = tree
       /\ \A r \in 1..NumRequests :
             requests'[r].result # Pending
             => requests'[r].result
                    = AuthorizeAccess(tree, requests'[r].node,
                          requests'[r].operation, requests'[r].auth,
                          requests'[r].service_id,
                          requests'[r].depth).result]_vars

\* One request has been answered with True while another, for another
\* caller, is suspended in the middle of its walk.
C25_Witness ==
    \E r, o \in 1..NumRequests :
        /\ requests[r].result = Allow
        /\ Len(requests[o].stack) > 1
        /\ requests[o].auth # requests[r].auth


(***************************************************************************)
(*                 Further properties of the Secret                        *)
(***************************************************************************)

\* C26: create on a Secret that holds a key or a certificate raises; on an
\* empty Secret it returns normally and leaves the Secret with the key
\* just generated and a certificate for that key: the certificate the
\* issuing CA signed, or without issuing CA a self-signed certificate and
\* the mark of a root.
C26_CreateOneStep ==
    [][last'.op = "create"
       => IF Populated(last'.target)
          THEN last'.error # None
          ELSE /\ last'.error = None
               /\ secrets'[last'.target].private_key = next_key'
               /\ secrets'[last'.target].cert # Null
               /\ ~last'.args[1] => secrets'[last'.target].is_root_cert]_vars


\* C27: cert_file_exists returns a true value exactly when the certificate
\* file of the Secret exists, private_key_file_exists exactly when its
\* private-key file exists.
C27_FileExists ==
    /\ last.op = "cert_file_exists"
       => (Truthy(last.result[1])
              <=> Exists(secrets[last.target].cert_file))
    /\ last.op = "private_key_file_exists"
       => (Truthy(last.result[1])
              <=> Exists(secrets[last.target].private_key_file))


\* C30: the ca flag of a Secret that holds a certificate is the CA basic
\* constraint of that certificate, so the Secret passes 'if not self.ca'
\* of review_csr and sign_csr exactly when its certificate is one of a CA.
C30_CaFlagIsBasicConstraint ==
    [][(/\ last'.op \in {"create", "add_signed_cert", "get_csr_signature",
                         "load"}
        /\ last'.error = None)
       => secrets'[last'.target].ca = secrets'[last'.target].cert.ca]_vars


(***************************************************************************)
(*          Properties of Member._create_secret (under SpecMember)         *)
(***************************************************************************)

\* C23: a step of _create_secret writes a file only when it is the save
\* at its end, taken with a Secret that holds the signed certificate for
\* its key, after review_csr and then sign_csr of the issuing CA returned
\* normally or after the service answered 201; a call that raised stays
\* where it is, and the step that raises writes no file.
C23_NoPartialIssuance ==
    [][/\ files' # files
          => /\ member.pc = "save"
             /\ member'.pc = "returned"
             /\ member.certchain # Null
             /\ secrets[MemberSlot].cert = member.certchain.signed_cert
             /\ secrets[MemberSlot].cert.public_key
                    = secrets[MemberSlot].private_key
             /\ IF member.issuing_ca # NoSecret
                THEN member.reviewed
                ELSE member.status_code = 201
       /\ member'.pc = "sign_csr" => member'.reviewed
       /\ member'.pc = "raised" => files' = files
       /\ member.pc = "raised" => member' = member]_vars

\* The Secret of a member has been saved after the issuing CA at hand
\* reviewed and signed its CSR.
C23_Witness ==
    /\ member.pc = "returned"
    /\ member.issuing_ca # NoSecret
    /\ member.reviewed
    /\ Exists(secrets[MemberSlot].cert_file)
    /\ Exists(secrets[MemberSlot].private_key_file)
    /\ files[secrets[MemberSlot].cert_file].data
           = CertchainAsBytes(secrets[MemberSlot])

=============================================================================
